---- MODULE Spec2Model ----
(***************************************************************************)
(* sudman: a terminal front-end for the systemd user units.                *)
(*                                                                         *)
(* The model covers src/sudman/utils.py (the process invoker and the       *)
(* existence check), src/sudman/manager.py (the unit queries and the       *)
(* control operations), src/sudman/cli.py (main) and                       *)
(* src/sudman/interactive.py (the dashboard).                              *)
(*                                                                         *)
(* Text is modelled as Python sees it: a str is a sequence of one-character *)
(* strings, so strip, split and the substring test are computed character  *)
(* by character.  An external command is modelled by its outcome: either   *)
(* the process ran (exit code, stdout, stderr) or subprocess raised.       *)
(***************************************************************************)
EXTENDS Integers, Sequences, FiniteSets, TLC

VARIABLES
  \* ---- SudmanTUI (interactive.py) ----
  pc,            \* where the session stands: "new" (constructed), blocked for input in
                 \* "list", "detail", "message" or "filter", or ended: "done", "crashed"
  key,           \* the input the last step of the session handled ("" before any)
  typed,         \* the bytes getstr answered, when the last input was a line typed
  terminal,      \* the mode of the terminal: "cooked", or "curses" between initscr and endwin
  screen,        \* self.screen: FALSE is None, TRUE is the curses window
  units,         \* self.units
  selected_idx,  \* self.selected_idx
  offset,        \* self.offset
  filter_type,   \* self.filter_type
  max_lines,     \* self.max_lines
  height,        \* what screen.getmaxyx() answers for the rows
  unit,          \* the unit handle_unit_selection holds
  message,       \* the text show_message displays
  \* ---- one call of a manager function ----
  call,          \* the function called and its inputs (in the dashboard: by the
                 \* key handled last)
  ret,           \* what it returned
  cmds,          \* the argv's handed to run_command, in order
  \* ---- one run of main (cli.py) ----
  printed,       \* the calls of print, in order
  \* ---- one call of show_message (interactive.py) ----
  locals,        \* its local variables: width, line, lines, and what the for
                 \* loop has still to take from message.split('\n')
  shown          \* the addstr calls of its display loop, in order

vars == <<pc, key, terminal, screen, units, selected_idx, offset, filter_type, max_lines, height, unit, message,
          call, ret, cmds, printed, typed, locals, shown>>

(***************************************************************************)
(* Bounds of the model.                                                    *)
(***************************************************************************)
\* the number of lines of a list-units output that list_units is given
MaxLines == 5
\* the number of lines of a show output that get_unit_status is given
MaxShowLines == 3
\* the number of units the list query answers the dashboard with
MaxUnits == 4
\* the number of rows of units the terminal has room for
MaxRows == 2
\* the same two, where only Up and Down are pressed
NavMaxUnits == 6
NavMaxRows == 4

\* one call of show_message: the lines of the message, the columns and the
\* rows of the terminal
MaxMsgLines == 2
MaxWidth == 3
MaxHeight == 6

\* draw() leaves four rows to the header and the footer; the model takes a
\* terminal that shows one unit at least
HeaderFooterRows == 4
MinHeight == HeaderFooterRows + 1

(***************************************************************************)
(* Python values.                                                          *)
(***************************************************************************)
\* None, where an Optional[str] is expected: no str equals it
None == <<"<None>">>

\* None, where an Optional[UnitStatus] is expected: no UnitStatus equals it
NoUnit == [none |-> TRUE]

\* no call of show_message under way: no local variable
NoLocals == [none |-> TRUE]

\* what Python's str.strip() and str.split() take for whitespace
Whitespace == {" ", "\n", "\t", "\r"}

RECURSIVE lstrip(_)
lstrip(s) ==
  IF s # <<>> /\ Head(s) \in Whitespace THEN lstrip(Tail(s)) ELSE s

RECURSIVE rstrip(_)
rstrip(s) ==
  IF s # <<>> /\ s[Len(s)] \in Whitespace THEN rstrip(SubSeq(s, 1, Len(s) - 1)) ELSE s

\* str.strip()
strip(s) == rstrip(lstrip(s))

\* sub in s
contains(sub, s) ==
  \E i \in 1..(Len(s) - Len(sub) + 1) : SubSeq(s, i, i + Len(sub) - 1) = sub

\* s.split(sep) for a one-character sep: always at least one piece
RECURSIVE split(_, _)
split(s, sep) ==
  IF \E i \in 1..Len(s) : s[i] = sep
  THEN LET i == CHOOSE k \in 1..Len(s) : s[k] = sep /\ \A j \in 1..(k - 1) : s[j] # sep
       IN <<SubSeq(s, 1, i - 1)>> \o split(SubSeq(s, i + 1, Len(s)), sep)
  ELSE <<s>>

\* s.split(maxsplit=n): runs of whitespace separate the words, leading
\* whitespace is dropped, and after n splits the rest is one piece, verbatim
RECURSIVE split_ws(_, _)
split_ws(s, maxsplit) ==
  LET t == lstrip(s) IN
  IF t = <<>> THEN <<>>
  ELSE IF maxsplit = 0 THEN <<t>>
  ELSE IF \E i \in 1..Len(t) : t[i] \in Whitespace
       THEN LET i == CHOOSE k \in 1..Len(t) :
                       t[k] \in Whitespace /\ \A j \in 1..(k - 1) : t[j] \notin Whitespace
            IN <<SubSeq(t, 1, i - 1)>> \o split_ws(SubSeq(t, i, Len(t)), maxsplit - 1)
       ELSE <<t>>

(***************************************************************************)
(* utils.py                                                                *)
(***************************************************************************)
\* an outcome of subprocess.Popen + communicate: the process ran ...
Exit(rc, out, err) ==
  [raised |-> FALSE, rc |-> rc, stdout |-> out, stderr |-> err, exc |-> <<>>]
\* ... or an exception was raised (no such executable, ...)
Raise(e) ==
  [raised |-> TRUE, rc |-> 0, stdout |-> <<>>, stderr |-> <<>>, exc |-> e]

run_command_swallow(o) ==
  IF o.raised
  THEN [rc |-> 0, stdout |-> <<>>, stderr |-> <<>>]
  ELSE [rc |-> o.rc, stdout |-> o.stdout, stderr |-> o.stderr]
run_command(o) ==
  IF o.raised
  THEN [rc |-> 1, stdout |-> <<>>, stderr |-> o.exc]
  ELSE [rc |-> o.rc, stdout |-> o.stdout, stderr |-> o.stderr]

cmd_list_unit_files(unit_name) ==
  <<<<"s","y","s","t","e","m","c","t","l">>, <<"-","-","u","s","e","r">>, <<"l","i","s","t","-","u","n","i","t","-","f","i","l","e","s">>, unit_name>>

check_unit_exists_ignore_rc(unit_name, o) ==
  ~contains(<<"0"," ","u","n","i","t"," ","f","i","l","e","s"," ","l","i","s","t","e","d",".">>, run_command(o).stdout)
check_unit_exists(unit_name, o) ==
  LET r == run_command(o) IN
  IF r.rc # 0 THEN FALSE
  ELSE ~contains(<<"0"," ","u","n","i","t"," ","f","i","l","e","s"," ","l","i","s","t","e","d",".">>, r.stdout)

(***************************************************************************)
(* manager.py: the control operations                                      *)
(***************************************************************************)
cmd_systemctl(verb, unit_name) ==
  <<<<"s","y","s","t","e","m","c","t","l">>, <<"-","-","u","s","e","r">>, verb, unit_name>>

\* the body the seven operations share: started is "Started", verb is "start"
control_unit_no_gate(verb, done, unit_name, oExists, oVerb) ==
  LET r == run_command(oVerb) IN
  [ret |-> IF r.rc = 0
           THEN <<TRUE, done \o <<" ">> \o unit_name \o <<" ","s","u","c","c","e","s","s","f","u","l","l","y">>>>
           ELSE <<FALSE, <<"F","a","i","l","e","d"," ","t","o"," ">> \o verb \o <<" ">> \o unit_name \o <<":"," ">> \o r.stderr>>,
   cmds |-> <<cmd_list_unit_files(unit_name), cmd_systemctl(verb, unit_name)>>]
control_unit_retry(verb, done, unit_name, oExists, oVerb) ==
  LET r == run_command(oVerb) IN
  IF ~check_unit_exists(unit_name, oExists)
  THEN [ret |-> <<FALSE, <<"U","n","i","t"," ">> \o unit_name \o <<" ","d","o","e","s"," ","n","o","t"," ","e","x","i","s","t">>>>,
        cmds |-> <<cmd_list_unit_files(unit_name)>>]
  ELSE [ret |-> IF r.rc = 0
                THEN <<TRUE, done \o <<" ">> \o unit_name \o <<" ","s","u","c","c","e","s","s","f","u","l","l","y">>>>
                ELSE <<FALSE, <<"F","a","i","l","e","d"," ","t","o"," ">> \o verb \o <<" ">> \o unit_name \o <<":"," ">> \o r.stderr>>,
        cmds |-> <<cmd_list_unit_files(unit_name), cmd_systemctl(verb, unit_name)>>
                 \o (IF r.rc = 0 THEN <<>> ELSE <<cmd_systemctl(verb, unit_name)>>)]
control_unit(verb, done, unit_name, oExists, oVerb) ==
  IF ~check_unit_exists(unit_name, oExists)
  THEN [ret |-> <<FALSE, <<"U","n","i","t"," ">> \o unit_name \o <<" ","d","o","e","s"," ","n","o","t"," ","e","x","i","s","t">>>>,
        cmds |-> <<cmd_list_unit_files(unit_name)>>]
  ELSE LET r == run_command(oVerb) IN
       [ret |-> IF r.rc = 0
                THEN <<TRUE, done \o <<" ">> \o unit_name \o <<" ","s","u","c","c","e","s","s","f","u","l","l","y">>>>
                ELSE <<FALSE, <<"F","a","i","l","e","d"," ","t","o"," ">> \o verb \o <<" ">> \o unit_name \o <<":"," ">> \o r.stderr>>,
        cmds |-> <<cmd_list_unit_files(unit_name), cmd_systemctl(verb, unit_name)>>]

start_unit(unit_name, oExists, oVerb) ==
  control_unit(<<"s","t","a","r","t">>, <<"S","t","a","r","t","e","d">>, unit_name, oExists, oVerb)
stop_unit(unit_name, oExists, oVerb) ==
  control_unit(<<"s","t","o","p">>, <<"S","t","o","p","p","e","d">>, unit_name, oExists, oVerb)
restart_unit(unit_name, oExists, oVerb) ==
  control_unit(<<"r","e","s","t","a","r","t">>, <<"R","e","s","t","a","r","t","e","d">>, unit_name, oExists, oVerb)
enable_unit(unit_name, oExists, oVerb) ==
  control_unit(<<"e","n","a","b","l","e">>, <<"E","n","a","b","l","e","d">>, unit_name, oExists, oVerb)
disable_unit(unit_name, oExists, oVerb) ==
  control_unit(<<"d","i","s","a","b","l","e">>, <<"D","i","s","a","b","l","e","d">>, unit_name, oExists, oVerb)
mask_unit(unit_name, oExists, oVerb) ==
  control_unit(<<"m","a","s","k">>, <<"M","a","s","k","e","d">>, unit_name, oExists, oVerb)
unmask_unit(unit_name, oExists, oVerb) ==
  control_unit(<<"u","n","m","a","s","k">>, <<"U","n","m","a","s","k","e","d">>, unit_name, oExists, oVerb)

cmd_is_enabled(unit_name) ==
  <<<<"s","y","s","t","e","m","c","t","l">>, <<"-","-","u","s","e","r">>, <<"i","s","-","e","n","a","b","l","e","d">>, unit_name>>

is_enabled_any_exit(unit_name, o) ==
  strip(run_command(o).stdout) = <<"e","n","a","b","l","e","d">>
is_enabled(unit_name, o) ==
  LET r == run_command(o) IN
  r.rc = 0 /\ strip(r.stdout) = <<"e","n","a","b","l","e","d">>

\* str(n) for n >= 0
Digits == <<"0", "1", "2", "3", "4", "5", "6", "7", "8", "9">>
RECURSIVE str(_)
str(n) ==
  IF n < 10 THEN <<Digits[n + 1]>> ELSE str(n \div 10) \o <<Digits[(n % 10) + 1]>>

cmd_journalctl(unit_name, lines) ==
  <<<<"j","o","u","r","n","a","l","c","t","l">>, <<"-","-","u","s","e","r">>, <<"-","u">>, unit_name, <<"-","n">>, str(lines)>>

get_journal_logs_any_exit(unit_name, lines, oExists, oJournal) ==
  IF ~check_unit_exists(unit_name, oExists)
  THEN [ret |-> <<FALSE, <<"U","n","i","t"," ">> \o unit_name \o <<" ","d","o","e","s"," ","n","o","t"," ","e","x","i","s","t">>>>,
        cmds |-> <<cmd_list_unit_files(unit_name)>>]
  ELSE [ret |-> <<TRUE, run_command(oJournal).stdout \o run_command(oJournal).stderr>>,
        cmds |-> <<cmd_list_unit_files(unit_name), cmd_journalctl(unit_name, lines)>>]
get_journal_logs(unit_name, lines, oExists, oJournal) ==
  IF ~check_unit_exists(unit_name, oExists)
  THEN [ret |-> <<FALSE, <<"U","n","i","t"," ">> \o unit_name \o <<" ","d","o","e","s"," ","n","o","t"," ","e","x","i","s","t">>>>,
        cmds |-> <<cmd_list_unit_files(unit_name)>>]
  ELSE LET r == run_command(oJournal) IN
       [ret |-> IF r.rc = 0
                THEN <<TRUE, r.stdout>>
                ELSE <<FALSE, <<"F","a","i","l","e","d"," ","t","o"," ","r","e","t","r","i","e","v","e"," ","l","o","g","s"," ","f","o","r"," ">> \o unit_name \o <<":"," ">> \o r.stderr>>,
        cmds |-> <<cmd_list_unit_files(unit_name), cmd_journalctl(unit_name, lines)>>]

(***************************************************************************)
(* manager.py: list_units                                                  *)
(***************************************************************************)
\* Python truthiness of an Optional[str]
truthy(s) == s # None /\ s # <<>>

UnitStatus(name, load, active, sub, description, enabled) ==
  [name |-> name, load_state |-> load, active_state |-> active,
   sub_state |-> sub, description |-> description, enabled |-> enabled]

cmd_list_units(unit_type) ==
  <<<<"s","y","s","t","e","m","c","t","l">>, <<"-","-","u","s","e","r">>, <<"l","i","s","t","-","u","n","i","t","s">>, <<"-","-","a","l","l">>>>
    \o (IF truthy(unit_type) THEN <<<<"*",".">> \o unit_type>> ELSE <<>>)

\* None, where data_start and data_end hold an Optional[int]: no index equals it
NoIndex == -1

\* "UNIT" in line and "LOAD" in line and "ACTIVE" in line
is_header(line) ==
  contains(<<"U","N","I","T">>, line) /\ contains(<<"L","O","A","D">>, line) /\ contains(<<"A","C","T","I","V","E">>, line)

slice_to_end(seq, a, b) ==
  SubSeq(seq, a + 1, Len(seq))
\* seq[a:b] for 0 <= a and 0 <= b
slice(seq, a, b) ==
  SubSeq(seq, a + 1, IF b < Len(seq) THEN b ELSE Len(seq))

\* data_start after the loop of lines 51-56 (0-based, None when no header):
\* one past the first line that is a header
data_start(lines) ==
  IF \E k \in 1..Len(lines) : is_header(lines[k])
  THEN (CHOOSE k \in 1..Len(lines) :
          is_header(lines[k]) /\ \A j \in 1..(k - 1) : ~is_header(lines[j]))
  ELSE NoIndex

data_end_or_last(lines) ==
  LET ds == data_start(lines) IN
  IF ds = NoIndex THEN NoIndex
  ELSE IF \E k \in ds..Len(lines) : strip(lines[k]) = <<>>
  THEN (CHOOSE k \in ds..Len(lines) :
          strip(lines[k]) = <<>> /\ \A j \in ds..(k - 1) : strip(lines[j]) # <<>>) - 1
  ELSE Len(lines)
\* data_end after the loop (0-based, None when the loop never breaks): the
\* first line, from the header on, that is blank once stripped
data_end(lines) ==
  LET ds == data_start(lines) IN
  IF ds # NoIndex /\ \E k \in ds..Len(lines) : strip(lines[k]) = <<>>
  THEN (CHOOSE k \in ds..Len(lines) :
          strip(lines[k]) = <<>> /\ \A j \in ds..(k - 1) : strip(lines[j]) # <<>>) - 1
  ELSE NoIndex

\* the loop of lines 62-80; the k-th is_enabled query gets the outcome oEnabled[k]
RECURSIVE process_data_lines(_, _, _)
process_data_lines(rows, oEnabled, acc) ==
  IF rows = <<>> THEN acc
  ELSE LET line == Head(rows)
           parts == split_ws(line, 4)
       IN IF strip(line) = <<>> \/ Len(parts) < 5
          THEN process_data_lines(Tail(rows), oEnabled, acc)
          ELSE LET enabled == is_enabled(parts[1], oEnabled[Len(acc.ret) + 1])
               IN process_data_lines(Tail(rows), oEnabled,
                    [ret |-> Append(acc.ret,
                               UnitStatus(parts[1], parts[2], parts[3], parts[4], parts[5], enabled)),
                     cmds |-> Append(acc.cmds, cmd_is_enabled(parts[1]))])

list_units_ignore_rc(unit_type, oList, oEnabled) ==
  LET cmd == cmd_list_units(unit_type)
      lines == split(strip(oList.stdout), "\n")
  IN IF data_start(lines) = NoIndex \/ data_end(lines) = NoIndex
     THEN [ret |-> <<>>, cmds |-> <<cmd>>]
     ELSE process_data_lines(slice(lines, data_start(lines), data_end(lines)),
                             oEnabled, [ret |-> <<>>, cmds |-> <<cmd>>])
list_units(unit_type, oList, oEnabled) ==
  LET cmd == cmd_list_units(unit_type)
      r == run_command(oList)
      lines == split(strip(r.stdout), "\n")
  IN IF r.rc # 0 THEN [ret |-> <<>>, cmds |-> <<cmd>>]
     ELSE IF data_start(lines) = NoIndex \/ data_end(lines) = NoIndex
          THEN [ret |-> <<>>, cmds |-> <<cmd>>]
          ELSE process_data_lines(slice(lines, data_start(lines), data_end(lines)),
                                  oEnabled, [ret |-> <<>>, cmds |-> <<cmd>>])

(***************************************************************************)
(* manager.py: get_unit_status                                             *)
(***************************************************************************)
\* s.split(sep, 1) for a one-character sep that s holds: the text before the
\* first sep and the text after it
split_1(s, sep) ==
  LET i == CHOOSE k \in 1..Len(s) : s[k] = sep /\ \A j \in 1..(k - 1) : s[j] # sep
  IN <<SubSeq(s, 1, i - 1), SubSeq(s, i + 1, Len(s))>>

\* a dict is a function of its keys; {} is the function of no key
EmptyDict == [k \in {} |-> <<>>]
\* d[key] = value
dict_set(d, k0, v0) == [k \in (DOMAIN d) \cup {k0} |-> IF k = k0 THEN v0 ELSE d[k]]
\* d.get(key, default)
dict_get(d, k0, default) == IF k0 \in DOMAIN d THEN d[k0] ELSE default

\* the loop of lines 105-108 over the lines of the show output
RECURSIVE parse_properties(_, _)
parse_properties(lines, properties) ==
  IF lines = <<>> THEN properties
  ELSE LET line == Head(lines) IN
       parse_properties(Tail(lines),
         IF contains(<<"=">>, line)
         THEN dict_set(properties, split_1(line, "=")[1], split_1(line, "=")[2])
         ELSE properties)

cmd_show(unit_name) ==
  <<<<"s","y","s","t","e","m","c","t","l">>, <<"-","-","u","s","e","r">>, <<"s","h","o","w">>,
    <<"-","-","p","r","o","p","e","r","t","y","=","L","o","a","d","S","t","a","t","e",",","A","c","t","i","v","e","S","t","a","t","e",",","S","u","b","S","t","a","t","e",",","D","e","s","c","r","i","p","t","i","o","n">>, unit_name>>

get_unit_status_ignore_rc(unit_name, oExists, oShow, oEnabled) ==
  IF ~check_unit_exists(unit_name, oExists)
  THEN [ret |-> NoUnit, cmds |-> <<cmd_list_unit_files(unit_name)>>]
  ELSE LET properties == parse_properties(split(strip(run_command(oShow).stdout), "\n"), EmptyDict)
       IN [ret |-> UnitStatus(unit_name,
                              dict_get(properties, <<"L","o","a","d","S","t","a","t","e">>, <<"u","n","k","n","o","w","n">>),
                              dict_get(properties, <<"A","c","t","i","v","e","S","t","a","t","e">>, <<"u","n","k","n","o","w","n">>),
                              dict_get(properties, <<"S","u","b","S","t","a","t","e">>, <<"u","n","k","n","o","w","n">>),
                              dict_get(properties, <<"D","e","s","c","r","i","p","t","i","o","n">>, <<>>),
                              is_enabled(unit_name, oEnabled)),
           cmds |-> <<cmd_list_unit_files(unit_name), cmd_show(unit_name),
                      cmd_is_enabled(unit_name)>>]
get_unit_status(unit_name, oExists, oShow, oEnabled) ==
  IF ~check_unit_exists(unit_name, oExists)
  THEN [ret |-> NoUnit, cmds |-> <<cmd_list_unit_files(unit_name)>>]
  ELSE LET r == run_command(oShow) IN
       IF r.rc # 0
       THEN [ret |-> NoUnit,
             cmds |-> <<cmd_list_unit_files(unit_name), cmd_show(unit_name)>>]
       ELSE LET properties == parse_properties(split(strip(r.stdout), "\n"), EmptyDict)
            IN [ret |-> UnitStatus(unit_name,
                                   dict_get(properties, <<"L","o","a","d","S","t","a","t","e">>, <<"u","n","k","n","o","w","n">>),
                                   dict_get(properties, <<"A","c","t","i","v","e","S","t","a","t","e">>, <<"u","n","k","n","o","w","n">>),
                                   dict_get(properties, <<"S","u","b","S","t","a","t","e">>, <<"u","n","k","n","o","w","n">>),
                                   dict_get(properties, <<"D","e","s","c","r","i","p","t","i","o","n">>, <<>>),
                                   is_enabled(unit_name, oEnabled)),
                cmds |-> <<cmd_list_unit_files(unit_name), cmd_show(unit_name),
                           cmd_is_enabled(unit_name)>>]

(***************************************************************************)
(* The inputs of the manager functions.                                    *)
(***************************************************************************)
UnitNames == {<<"x">>, <<"f","o","o",".","s","e","r","v","i","c","e">>}

\* outcomes of `systemctl --user list-unit-files <unit>`
ExistsOutcomes ==
  { Exit(0, <<"U","N","I","T"," ","F","I","L","E"," ","S","T","A","T","E","\n","x"," ","e","n","a","b","l","e","d","\n","\n","1"," ","u","n","i","t"," ","f","i","l","e","s"," ","l","i","s","t","e","d",".","\n">>, <<>>),
    Exit(0, <<"0"," ","u","n","i","t"," ","f","i","l","e","s"," ","l","i","s","t","e","d",".","\n">>, <<>>),
    Exit(0, <<"1","0"," ","u","n","i","t"," ","f","i","l","e","s"," ","l","i","s","t","e","d",".","\n">>, <<>>),
    Exit(0, <<>>, <<>>),
    Exit(1, <<"1"," ","u","n","i","t"," ","f","i","l","e","s"," ","l","i","s","t","e","d",".","\n">>, <<>>),
    Exit(1, <<>>, <<"F","a","i","l","e","d"," ","t","o"," ","c","o","n","n","e","c","t"," ","t","o"," ","b","u","s">>),
    Raise(<<"N","o"," ","s","u","c","h"," ","f","i","l","e"," ","o","r"," ","d","i","r","e","c","t","o","r","y",":"," ","'","s","y","s","t","e","m","c","t","l","'">>) }

\* outcomes of `systemctl --user <verb> <unit>`
VerbOutcomes ==
  { Exit(0, <<>>, <<>>),
    Exit(0, <<>>, <<"C","r","e","a","t","e","d"," ","s","y","m","l","i","n","k",".","\n">>),
    Exit(1, <<>>, <<"n","o"," ","s","u","c","h"," ","u","n","i","t">>),
    Exit(5, <<>>, <<"U","n","i","t"," ","x"," ","n","o","t"," ","l","o","a","d","e","d",".","\n">>),
    Raise(<<"N","o"," ","s","u","c","h"," ","f","i","l","e"," ","o","r"," ","d","i","r","e","c","t","o","r","y",":"," ","'","s","y","s","t","e","m","c","t","l","'">>) }

\* outcomes of `systemctl --user is-enabled <unit>`
EnabledOutcomes ==
  { Exit(0, <<"e","n","a","b","l","e","d","\n">>, <<>>),
    Exit(0, <<"e","n","a","b","l","e","d">>, <<>>),
    Exit(0, <<" ","e","n","a","b","l","e","d"," ","\n">>, <<>>),
    Exit(0, <<"e","n","a","b","l","e","d","-","r","u","n","t","i","m","e","\n">>, <<>>),
    Exit(0, <<"s","t","a","t","i","c","\n">>, <<>>),
    Exit(0, <<"d","i","s","a","b","l","e","d","\n">>, <<>>),
    Exit(0, <<>>, <<>>),
    Exit(1, <<"d","i","s","a","b","l","e","d","\n">>, <<>>),
    Exit(1, <<"e","n","a","b","l","e","d">>, <<>>),
    Exit(1, <<"e","n","a","b","l","e","d","\n">>, <<>>),
    Raise(<<"N","o"," ","s","u","c","h"," ","f","i","l","e"," ","o","r"," ","d","i","r","e","c","t","o","r","y",":"," ","'","s","y","s","t","e","m","c","t","l","'">>) }

ControlOps ==
  {"start_unit", "stop_unit", "restart_unit", "enable_unit", "disable_unit",
   "mask_unit", "unmask_unit"}

ControlCalls ==
  [op : ControlOps, unit_name : UnitNames, oExists : ExistsOutcomes, oVerb : VerbOutcomes]
EnabledCalls ==
  [op : {"is_enabled"}, unit_name : UnitNames, o : EnabledOutcomes]
ExistsCalls ==
  [op : {"check_unit_exists"}, unit_name : UnitNames, o : ExistsOutcomes]

\* outcomes of `journalctl --user -u <unit> -n <lines>`
JournalOutcomes ==
  { Exit(0, <<"N","o","v"," ","0","3"," ","1","0",":","0","0",":","0","0"," ","h","o","s","t"," ","f","o","o","[","1","]",":"," ","s","t","a","r","t","e","d","\n","N","o","v"," ","0","3"," ","1","0",":","0","0",":","0","1"," ","h","o","s","t"," ","f","o","o","[","1","]",":"," ","r","e","a","d","y","\n">>, <<>>),
    Exit(0, <<"-","-"," ","N","o"," ","e","n","t","r","i","e","s"," ","-","-","\n">>, <<>>),
    Exit(0, <<>>, <<"H","i","n","t",":"," ","y","o","u"," ","a","r","e"," ","n","o","t"," ","s","e","e","i","n","g"," ","a","l","l"," ","m","e","s","s","a","g","e","s","\n">>),
    Exit(1, <<>>, <<"N","o"," ","j","o","u","r","n","a","l"," ","f","i","l","e","s"," ","w","e","r","e"," ","f","o","u","n","d",".","\n">>),
    Exit(1, <<"N","o","v"," ","0","3"," ","1","0",":","0","0",":","0","0"," ","h","o","s","t"," ","f","o","o","[","1","]",":"," ","s","t","a","r","t","e","d","\n">>, <<"F","a","i","l","e","d"," ","t","o"," ","s","e","e","k">>),
    Raise(<<"N","o"," ","s","u","c","h"," ","f","i","l","e"," ","o","r"," ","d","i","r","e","c","t","o","r","y",":"," ","'","j","o","u","r","n","a","l","c","t","l","'">>) }
LineCounts == {0, 7, 50}
JournalCalls ==
  [op : {"get_journal_logs"}, unit_name : UnitNames, lines : LineCounts,
   oExists : ExistsOutcomes, oJournal : JournalOutcomes]

\* any argv, and any outcome of running it
Argvs ==
  {<<>>, <<<<"s","y","s","t","e","m","c","t","l">>, <<"-","-","v","e","r","s","i","o","n">>>>, <<<<"n","o","-","s","u","c","h","-","p","r","o","g","r","a","m">>>>}
RunCalls ==
  [op : {"run_command"}, cmd : Argvs,
   o : ExistsOutcomes \cup VerbOutcomes \cup EnabledOutcomes \cup JournalOutcomes]

\* the stdout of `systemctl --user show --property=... <unit>` is up to
\* MaxShowLines lines, each one of PropertyChoices; key is None for a line
\* that is no key=value line
Property(text, k, v) == [text |-> text, key |-> k, value |-> v]
PropertyChoices ==
  { Property(<<"L","o","a","d","S","t","a","t","e","=","l","o","a","d","e","d">>, <<"L","o","a","d","S","t","a","t","e">>, <<"l","o","a","d","e","d">>),
    Property(<<"A","c","t","i","v","e","S","t","a","t","e","=","a","c","t","i","v","e">>, <<"A","c","t","i","v","e","S","t","a","t","e">>, <<"a","c","t","i","v","e">>),
    Property(<<"S","u","b","S","t","a","t","e","=","r","u","n","n","i","n","g">>, <<"S","u","b","S","t","a","t","e">>, <<"r","u","n","n","i","n","g">>),
    Property(<<"D","e","s","c","r","i","p","t","i","o","n","=","F","o","o"," ","S","e","r","v","i","c","e">>, <<"D","e","s","c","r","i","p","t","i","o","n">>, <<"F","o","o"," ","S","e","r","v","i","c","e">>),
    Property(<<"D","e","s","c","r","i","p","t","i","o","n","=","a","=","b">>, <<"D","e","s","c","r","i","p","t","i","o","n">>, <<"a","=","b">>),
    Property(<<"S","u","b","S","t","a","t","e","=">>, <<"S","u","b","S","t","a","t","e">>, <<>>),
    Property(<<"I","d","=","x">>, <<"I","d">>, <<"x">>),
    Property(<<"L","o","a","d","S","t","a","t","e">>, None, None) }
PropertySeqs == UNION {[1..n -> PropertyChoices] : n \in 0..MaxShowLines}

\* the lines, each ended by a newline
RECURSIVE JoinProperties(_)
JoinProperties(ps) ==
  IF ps = <<>> THEN <<>> ELSE ps[1].text \o <<"\n">> \o JoinProperties(Tail(ps))

StatusCallOnLines(ps, rc, oExists, oEnabled) ==
  [op |-> "get_unit_status", unit_name |-> <<"f","o","o",".","s","e","r","v","i","c","e">>, lines |-> ps,
   oExists |-> oExists,
   oShow |-> Exit(rc, JoinProperties(ps), IF rc = 0 THEN <<>> ELSE <<"F","a","i","l","e","d"," ","t","o"," ","c","o","n","n","e","c","t"," ","t","o"," ","b","u","s">>),
   oEnabled |-> oEnabled]
StatusCallOnNothing(unit_name, oExists, oShow) ==
  [op |-> "get_unit_status", unit_name |-> unit_name, lines |-> <<>>,
   oExists |-> oExists, oShow |-> oShow, oEnabled |-> Exit(0, <<"e","n","a","b","l","e","d","\n">>, <<>>)]

(***************************************************************************)
(* MgrSpec: one call of a control operation, of is_enabled, of             *)
(* check_unit_exists, of get_unit_status, of get_journal_logs or of        *)
(* run_command, on any of the inputs above.                                *)
(***************************************************************************)
\* SudmanTUI(): the fields as __init__ sets them, no unit selected, nothing shown
TuiNew ==
  /\ key = ""
  /\ terminal = "cooked"
  /\ screen = FALSE
  /\ units = <<>>
  /\ selected_idx = 0
  /\ offset = 0
  /\ filter_type = None
  /\ max_lines = 0
  /\ height = MinHeight
  /\ unit = NoUnit
  /\ message = None
  /\ printed = <<>>
  /\ typed = None
  /\ locals = NoLocals
  /\ shown = <<>>

MgrInit ==
  /\ TuiNew
  /\ pc = "call"
  /\ \/ call \in ControlCalls \cup EnabledCalls \cup ExistsCalls
     \/ call \in JournalCalls \cup RunCalls
     \/ \E ps \in PropertySeqs,
           oe \in {Exit(0, <<"e","n","a","b","l","e","d","\n">>, <<>>), Exit(0, <<"s","t","a","t","i","c","\n">>, <<>>), Exit(1, <<>>, <<>>)} :
          call = StatusCallOnLines(ps, 0, Exit(0, <<"1"," ","u","n","i","t"," ","f","i","l","e","s"," ","l","i","s","t","e","d",".","\n">>, <<>>), oe)
     \/ \E ps \in PropertySeqs, oe \in ExistsOutcomes, rc \in {0, 1, 4} :
          /\ Len(ps) <= 1
          /\ call = StatusCallOnLines(ps, rc, oe, Exit(0, <<"e","n","a","b","l","e","d","\n">>, <<>>))
     \/ \E n \in UnitNames, oe \in ExistsOutcomes :
          call = StatusCallOnNothing(n, oe, Raise(<<"N","o"," ","s","u","c","h"," ","f","i","l","e"," ","o","r"," ","d","i","r","e","c","t","o","r","y",":"," ","'","s","y","s","t","e","m","c","t","l","'">>))
  /\ ret = None
  /\ cmds = <<>>

Return(r) ==
  /\ pc' = "returned"
  /\ ret' = r.ret
  /\ cmds' = r.cmds
  /\ UNCHANGED <<locals, shown, call, key, terminal, screen, units, selected_idx, offset, filter_type, max_lines,
                 height, unit, message, printed, typed>>

Call_start_unit ==
  /\ pc = "call" /\ call.op = "start_unit"
  /\ Return(start_unit(call.unit_name, call.oExists, call.oVerb))
Call_stop_unit ==
  /\ pc = "call" /\ call.op = "stop_unit"
  /\ Return(stop_unit(call.unit_name, call.oExists, call.oVerb))
Call_restart_unit ==
  /\ pc = "call" /\ call.op = "restart_unit"
  /\ Return(restart_unit(call.unit_name, call.oExists, call.oVerb))
Call_enable_unit ==
  /\ pc = "call" /\ call.op = "enable_unit"
  /\ Return(enable_unit(call.unit_name, call.oExists, call.oVerb))
Call_disable_unit ==
  /\ pc = "call" /\ call.op = "disable_unit"
  /\ Return(disable_unit(call.unit_name, call.oExists, call.oVerb))
Call_mask_unit ==
  /\ pc = "call" /\ call.op = "mask_unit"
  /\ Return(mask_unit(call.unit_name, call.oExists, call.oVerb))
Call_unmask_unit ==
  /\ pc = "call" /\ call.op = "unmask_unit"
  /\ Return(unmask_unit(call.unit_name, call.oExists, call.oVerb))
Call_is_enabled ==
  /\ pc = "call" /\ call.op = "is_enabled"
  /\ Return([ret |-> is_enabled(call.unit_name, call.o),
             cmds |-> <<cmd_is_enabled(call.unit_name)>>])
Call_check_unit_exists ==
  /\ pc = "call" /\ call.op = "check_unit_exists"
  /\ Return([ret |-> check_unit_exists(call.unit_name, call.o),
             cmds |-> <<cmd_list_unit_files(call.unit_name)>>])
Call_get_unit_status ==
  /\ pc = "call" /\ call.op = "get_unit_status"
  /\ Return(get_unit_status(call.unit_name, call.oExists, call.oShow, call.oEnabled))
Call_get_journal_logs ==
  /\ pc = "call" /\ call.op = "get_journal_logs"
  /\ Return(get_journal_logs(call.unit_name, call.lines, call.oExists, call.oJournal))
Call_run_command ==
  /\ pc = "call" /\ call.op = "run_command"
  /\ Return([ret |-> <<run_command(call.o).rc, run_command(call.o).stdout,
                        run_command(call.o).stderr>>,
             cmds |-> <<call.cmd>>])

MgrNext ==
  \/ Call_start_unit
  \/ Call_stop_unit
  \/ Call_restart_unit
  \/ Call_enable_unit
  \/ Call_disable_unit
  \/ Call_mask_unit
  \/ Call_unmask_unit
  \/ Call_is_enabled
  \/ Call_check_unit_exists
  \/ Call_get_unit_status
  \/ Call_get_journal_logs
  \/ Call_run_command

MgrSpec == MgrInit /\ [][MgrNext]_vars

(***************************************************************************)
(* Claims about the control operations, is_enabled and check_unit_exists   *)
(* (MgrSpec).                                                              *)
(***************************************************************************)
Returned(ops) == pc = "returned" /\ call.op \in ops

VerbOf(op) ==
  CASE op = "start_unit" -> <<"s","t","a","r","t">>
    [] op = "stop_unit" -> <<"s","t","o","p">>
    [] op = "restart_unit" -> <<"r","e","s","t","a","r","t">>
    [] op = "enable_unit" -> <<"e","n","a","b","l","e">>
    [] op = "disable_unit" -> <<"d","i","s","a","b","l","e">>
    [] op = "mask_unit" -> <<"m","a","s","k">>
    [] op = "unmask_unit" -> <<"u","n","m","a","s","k">>

PastOf(op) ==
  CASE op = "start_unit" -> <<"S","t","a","r","t","e","d">>
    [] op = "stop_unit" -> <<"S","t","o","p","p","e","d">>
    [] op = "restart_unit" -> <<"R","e","s","t","a","r","t","e","d">>
    [] op = "enable_unit" -> <<"E","n","a","b","l","e","d">>
    [] op = "disable_unit" -> <<"D","i","s","a","b","l","e","d">>
    [] op = "mask_unit" -> <<"M","a","s","k","e","d">>
    [] op = "unmask_unit" -> <<"U","n","m","a","s","k","e","d">>

Verbs == {VerbOf(op) : op \in ControlOps}

\* the exit code and the stderr the caller of the invoker sees for an outcome
SeenExit(o) == IF o.raised THEN 1 ELSE o.rc
SeenStderr(o) == IF o.raised THEN o.exc ELSE o.stderr

\* how often run_command was handed the argv
Invocations(argv) == Cardinality({i \in 1..Len(cmds) : cmds[i] = argv})

\* the existence check of the call answered true
CallUnitExists ==
  SeenExit(call.oExists) = 0 /\ ~contains(<<"0"," ","u","n","i","t"," ","f","i","l","e","s"," ","l","i","s","t","e","d",".">>, call.oExists.stdout)

\* C5: a control operation (start, stop, restart, enable, disable, mask, unmask)
\* on a unit whose existence check is false returns (False, "Unit {name} does
\* not exist") and hands run_command no `<verb> <unit>` argv at all.
C5_NoUnitNoCommand ==
  (Returned(ControlOps) /\ ~CallUnitExists) =>
     /\ ret = <<FALSE, <<"U","n","i","t"," ">> \o call.unit_name \o <<" ","d","o","e","s"," ","n","o","t"," ","e","x","i","s","t">>>>
     /\ \A i \in 1..Len(cmds) : cmds[i][3] \notin Verbs

C5_Witness ==
  /\ Returned({"mask_unit"}) /\ ~CallUnitExists
  /\ SeenExit(call.oExists) = 0
  /\ SeenExit(call.oVerb) = 0
  /\ cmds = <<cmd_list_unit_files(call.unit_name)>>

\* C6: a control operation on a unit whose existence check is true hands
\* run_command the argv `<verb> <unit>` exactly once, whatever its exit code;
\* exit code 0 gives (True, "<Verb>ed {name} successfully") and any other exit
\* code gives (False, "Failed to <verb> {name}: {stderr}"), the stderr verbatim.
C6_OneInvocation ==
  (Returned(ControlOps) /\ CallUnitExists) =>
     LET verb == VerbOf(call.op)
         name == call.unit_name
     IN /\ Invocations(<<<<"s","y","s","t","e","m","c","t","l">>, <<"-","-","u","s","e","r">>, verb, name>>) = 1
        /\ \A i \in 1..Len(cmds) : cmds[i][3] \in Verbs => cmds[i][3] = verb
        /\ SeenExit(call.oVerb) = 0 =>
             ret = <<TRUE, PastOf(call.op) \o <<" ">> \o name \o <<" ","s","u","c","c","e","s","s","f","u","l","l","y">>>>
        /\ SeenExit(call.oVerb) # 0 =>
             ret = <<FALSE, <<"F","a","i","l","e","d"," ","t","o"," ">> \o verb \o <<" ">> \o name \o <<":"," ">>
                            \o SeenStderr(call.oVerb)>>

C6_Witness ==
  /\ Returned({"start_unit"}) /\ CallUnitExists
  /\ call.unit_name = <<"x">>
  /\ call.oVerb = Exit(1, <<>>, <<"n","o"," ","s","u","c","h"," ","u","n","i","t">>)
  /\ ret = <<FALSE, <<"F","a","i","l","e","d"," ","t","o"," ","s","t","a","r","t"," ","x",":"," ","n","o"," ","s","u","c","h"," ","u","n","i","t">>>>

\* s is the text t with whitespace only before and after it
TrimsTo(s, t) ==
  \E i \in 1..(Len(s) + 1) :
     /\ i + Len(t) - 1 <= Len(s)
     /\ SubSeq(s, i, i + Len(t) - 1) = t
     /\ \A j \in 1..Len(s) : (j < i \/ j > i + Len(t) - 1) => s[j] \in Whitespace

\* C9: is_enabled returns true if and only if the is-enabled query exits with
\* code 0 and its trimmed stdout is exactly "enabled".
C9_IsEnabledExact ==
  Returned({"is_enabled"}) =>
     (ret = TRUE <=> (SeenExit(call.o) = 0 /\ TrimsTo(call.o.stdout, <<"e","n","a","b","l","e","d">>)))

C9_Witness ==
  /\ Returned({"is_enabled"})
  /\ call.o = Exit(1, <<"e","n","a","b","l","e","d">>, <<>>)
  /\ ret = FALSE

\* C10: check_unit_exists returns false whenever list-unit-files exits
\* non-zero, whatever its stdout; false when it exits 0 and stdout contains
\* "0 unit files listed."; and true in every other case.
C10_UnitExists ==
  Returned({"check_unit_exists"}) =>
     /\ SeenExit(call.o) # 0 => ret = FALSE
     /\ (SeenExit(call.o) = 0 /\ contains(<<"0"," ","u","n","i","t"," ","f","i","l","e","s"," ","l","i","s","t","e","d",".">>, call.o.stdout))
           => ret = FALSE
     /\ (SeenExit(call.o) = 0 /\ ~contains(<<"0"," ","u","n","i","t"," ","f","i","l","e","s"," ","l","i","s","t","e","d",".">>, call.o.stdout))
           => ret = TRUE

C10_Witness ==
  /\ Returned({"check_unit_exists"})
  /\ call.o = Exit(1, <<"1"," ","u","n","i","t"," ","f","i","l","e","s"," ","l","i","s","t","e","d",".","\n">>, <<>>)
  /\ ret = FALSE

(***************************************************************************)
(* ListSpec: one call of list_units.  The stdout of the list command is    *)
(* up to MaxLines lines, each one of LineChoices, joined by newlines; the  *)
(* call keeps the lines it was made of, so that a claim can say what the   *)
(* output holds without parsing it again.                                  *)
(***************************************************************************)
Line(text, kind, fields) == [text |-> text, kind |-> kind, fields |-> fields]

LineChoices ==
  { Line(<<"U","N","I","T"," "," ","L","O","A","D"," ","A","C","T","I","V","E"," ","S","U","B"," ","D","E","S","C","R","I","P","T","I","O","N">>, "header",
         <<<<"U","N","I","T">>, <<"L","O","A","D">>, <<"A","C","T","I","V","E">>, <<"S","U","B">>, <<"D","E","S","C","R","I","P","T","I","O","N">>>>),
    Line(<<"f","o","o",".","s","e","r","v","i","c","e"," ","l","o","a","d","e","d"," ","a","c","t","i","v","e"," ","r","u","n","n","i","n","g"," ","F","o","o"," ","S","e","r","v","i","c","e">>, "row",
         <<<<"f","o","o",".","s","e","r","v","i","c","e">>, <<"l","o","a","d","e","d">>, <<"a","c","t","i","v","e">>, <<"r","u","n","n","i","n","g">>, <<"F","o","o"," ","S","e","r","v","i","c","e">>>>),
    Line(<<"b","a","r",".","t","i","m","e","r"," "," ","l","o","a","d","e","d"," ","a","c","t","i","v","e"," "," ","w","a","i","t","i","n","g"," ","B","a","r">>, "row",
         <<<<"b","a","r",".","t","i","m","e","r">>, <<"l","o","a","d","e","d">>, <<"a","c","t","i","v","e">>, <<"w","a","i","t","i","n","g">>, <<"B","a","r">>>>),
    Line(<<"1"," ","l","o","a","d","e","d"," ","u","n","i","t","s"," ","l","i","s","t","e","d",".">>, "short", <<>>),
    Line(<<"U","N","I","T"," ","L","O","A","D"," ","S","U","B">>, "short", <<>>),
    Line(<<" "," ">>, "blank", <<>>),
    Line(<<>>, "blank", <<>>) }

LineSeqs == UNION {[1..n -> LineChoices] : n \in 0..MaxLines}

RECURSIVE JoinLines(_)
JoinLines(ls) ==
  IF ls = <<>> THEN <<>>
  ELSE IF Len(ls) = 1 THEN ls[1].text
  ELSE ls[1].text \o <<"\n">> \o JoinLines(Tail(ls))

\* the outcome of the k-th is-enabled query of a call, two ways
EnabledOddRows ==
  [k \in 1..MaxLines |-> IF k % 2 = 1 THEN Exit(0, <<"e","n","a","b","l","e","d","\n">>, <<>>)
                                       ELSE Exit(1, <<"d","i","s","a","b","l","e","d","\n">>, <<>>)]
EnabledEvenRows ==
  [k \in 1..MaxLines |-> IF k % 2 = 1 THEN Exit(0, <<"s","t","a","t","i","c","\n">>, <<>>)
                                       ELSE Exit(0, <<"e","n","a","b","l","e","d","\n">>, <<>>)]
EnabledSeqs == {EnabledOddRows, EnabledEvenRows}

UnitTypes == {None, <<>>, <<"s","e","r","v","i","c","e">>}


\* a call on an output made of lines: both ways of the enabled answers when
\* the list command exits 0, one when it exits 1
ListCallOnLines(ls, rc, oe) ==
  [op |-> "list_units", unit_type |-> None, lines |-> ls,
   oList |-> Exit(rc, JoinLines(ls), IF rc = 0 THEN <<>> ELSE <<"F","a","i","l","e","d"," ","t","o"," ","c","o","n","n","e","c","t"," ","t","o"," ","b","u","s">>),
   oEnabled |-> oe]

\* a call with a unit type, on an empty output or with no systemctl to run
ListCallOnNothing(t, o) ==
  [op |-> "list_units", unit_type |-> t, lines |-> <<>>, oList |-> o,
   oEnabled |-> EnabledOddRows]

ListInit ==
  /\ TuiNew
  /\ pc = "call"
  /\ \/ \E ls \in LineSeqs, oe \in EnabledSeqs : call = ListCallOnLines(ls, 0, oe)
     \/ \E ls \in LineSeqs : call = ListCallOnLines(ls, 1, EnabledOddRows)
     \/ \E t \in UnitTypes,
           o \in {Exit(0, <<>>, <<>>), Raise(<<"N","o"," ","s","u","c","h"," ","f","i","l","e"," ","o","r"," ","d","i","r","e","c","t","o","r","y",":"," ","'","s","y","s","t","e","m","c","t","l","'">>)} :
          call = ListCallOnNothing(t, o)
  /\ ret = None
  /\ cmds = <<>>

Call_list_units ==
  /\ pc = "call" /\ call.op = "list_units"
  /\ Return(list_units(call.unit_type, call.oList, call.oEnabled))

ListNext == Call_list_units

ListSpec == ListInit /\ [][ListNext]_vars

(***************************************************************************)
(* Claims about list_units (ListSpec).  They read the lines the output was *)
(* made of (call.lines), never the parse.                                  *)
(***************************************************************************)
HasHeader(ls) == \E k \in 1..Len(ls) : ls[k].kind = "header"

\* the first header line
HeaderAt(ls) ==
  CHOOSE k \in 1..Len(ls) :
    ls[k].kind = "header" /\ \A j \in 1..(k - 1) : ls[j].kind # "header"

\* the first blank line after the header, or one past the last line
BlankAfterHeader(ls) ==
  LET h == HeaderAt(ls) IN
  IF \E k \in (h + 1)..Len(ls) : ls[k].kind = "blank"
  THEN CHOOSE k \in (h + 1)..Len(ls) :
         ls[k].kind = "blank" /\ \A j \in (h + 1)..(k - 1) : ls[j].kind # "blank"
  ELSE Len(ls) + 1

\* the rows of the table end with a blank line, and text follows that line
Terminated(ls) ==
  /\ HasHeader(ls)
  /\ BlankAfterHeader(ls) <= Len(ls)
  /\ \E m \in (BlankAfterHeader(ls) + 1)..Len(ls) : ls[m].kind # "blank"

\* the well-formed rows among the lines from..to, in order: the lines of
\* five fields (a second header line is one)
RECURSIVE RowsOf(_, _, _)
RowsOf(ls, from, to) ==
  IF from > to THEN <<>>
  ELSE (IF Len(ls[from].fields) = 5 THEN <<ls[from]>> ELSE <<>>) \o RowsOf(ls, from + 1, to)

\* the rows between the header and the first blank line after it (or the end)
TableRows(ls) == RowsOf(ls, HeaderAt(ls) + 1, BlankAfterHeader(ls) - 1)

\* what the enabled check answers for an outcome of the is-enabled query
EnabledAnswer(o) == SeenExit(o) = 0 /\ TrimsTo(o.stdout, <<"e","n","a","b","l","e","d">>)

\* one Unit per row, in order: the row's five fields, and the answer of the
\* enabled check made for the row
UnitsOf(rows, oEnabled) ==
  [k \in 1..Len(rows) |->
     [name |-> rows[k].fields[1], load_state |-> rows[k].fields[2],
      active_state |-> rows[k].fields[3], sub_state |-> rows[k].fields[4],
      description |-> rows[k].fields[5], enabled |-> EnabledAnswer(oEnabled[k])]]

ListReturned == Returned({"list_units"}) /\ call.oList.raised = FALSE

\* C7 as stated: for any list output (exit code 0) with a header row followed
\* by zero or more rows, list_units returns one Unit per well-formed row, in
\* order, whether or not a blank line ends the rows; none without a header.
C7_Original ==
  (ListReturned /\ call.oList.rc = 0) =>
     IF HasHeader(call.lines)
     THEN ret = UnitsOf(TableRows(call.lines), call.oEnabled)
     ELSE ret = <<>>

\* C7 amended: for any list output (exit code 0) with a header row, zero or
\* more rows, then a blank line and text after it, list_units returns one
\* Unit per well-formed row between the header and that blank line, in input
\* order, each with the row's fields and the enabled check's answer for the
\* row's name (asked once per row, in order); rows with fewer than five
\* fields are left out and do not stop the rows after them; and it returns
\* no Unit when there is no header, or no blank line with text after it.
C7_OneUnitPerRow ==
  (ListReturned /\ call.oList.rc = 0) =>
     IF Terminated(call.lines)
     THEN LET rows == TableRows(call.lines) IN
          /\ ret = UnitsOf(rows, call.oEnabled)
          /\ Len(cmds) = Len(rows) + 1
          /\ \A k \in 1..Len(rows) :
               cmds[k + 1] = <<<<"s","y","s","t","e","m","c","t","l">>, <<"-","-","u","s","e","r">>, <<"i","s","-","e","n","a","b","l","e","d">>, rows[k].fields[1]>>
     ELSE ret = <<>>

\* a short row between two well-formed rows: both are returned, in order
C7_Witness ==
  /\ ListReturned /\ call.oList.rc = 0
  /\ Terminated(call.lines)
  /\ \E k \in 1..Len(call.lines) :
       /\ HeaderAt(call.lines) < k /\ k < BlankAfterHeader(call.lines)
       /\ call.lines[k].kind = "short"
       /\ call.lines[k + 1].kind = "row"
  /\ Len(ret) = 1
  /\ ret[1].description = <<"F","o","o"," ","S","e","r","v","i","c","e">>
  /\ ret[1].enabled

\* C8: list_units never fails: when the list command exits non-zero, or its
\* output has no header line, it returns the empty list and asks no
\* is-enabled query.
C8_EmptyOnFailure ==
  (Returned({"list_units"})
     /\ (SeenExit(call.oList) # 0 \/ ~HasHeader(call.lines))) =>
       /\ ret = <<>>
       /\ cmds = <<cmd_list_units(call.unit_type)>>

\* the list command failed although its stdout holds a full table
C8_Witness ==
  /\ Returned({"list_units"})
  /\ SeenExit(call.oList) # 0
  /\ Terminated(call.lines) /\ TableRows(call.lines) # <<>>
  /\ ret = <<>>

\* the five fields of the units returned, and of the rows between the header
\* and the first blank line after it (or the end)
FieldsReturned ==
  [k \in 1..Len(ret) |->
     <<ret[k].name, ret[k].load_state, ret[k].active_state, ret[k].sub_state,
       ret[k].description>>]
FieldsOfTable ==
  [k \in 1..Len(TableRows(call.lines)) |-> TableRows(call.lines)[k].fields]

\* C24 as stated: the data rows are the lines between the header and the
\* first blank line after it, whatever follows that blank line.
C24_Original ==
  (ListReturned /\ call.oList.rc = 0 /\ HasHeader(call.lines)
     /\ BlankAfterHeader(call.lines) <= Len(call.lines)) =>
       FieldsReturned = FieldsOfTable

\* C24 amended: the data rows are the lines between the header and the first
\* blank line after it when text follows that blank line, and there is no
\* data row otherwise; so no line after that blank line and no line before
\* the header ever gives a Unit.
C24_DataRegion ==
  (ListReturned /\ call.oList.rc = 0) =>
     IF HasHeader(call.lines)
     THEN /\ Terminated(call.lines) => FieldsReturned = FieldsOfTable
          /\ ~Terminated(call.lines) => FieldsReturned = <<>>
     ELSE FieldsReturned = <<>>

\* a row before the header and a row after the blank line: neither is returned
C24_Witness ==
  /\ ListReturned /\ call.oList.rc = 0
  /\ Terminated(call.lines)
  /\ \E k \in 1..Len(call.lines) : k < HeaderAt(call.lines) /\ call.lines[k].kind = "row"
  /\ \E k \in 1..Len(call.lines) : k > BlankAfterHeader(call.lines) /\ call.lines[k].kind = "row"
  /\ Len(ret) = 1
  /\ ret[1].name = <<"b","a","r",".","t","i","m","e","r">>

(***************************************************************************)
(* Claims about get_unit_status, get_journal_logs and run_command          *)
(* (MgrSpec).  The claim about get_unit_status reads the lines the show    *)
(* output was made of (call.lines), never the parse.                       *)
(***************************************************************************)
\* the values of the lines `key=value` of the show output that have the key
ValuesOf(k) ==
  {call.lines[i].value : i \in {j \in 1..Len(call.lines) : call.lines[j].key = k}}

\* v is the value of a line with the key, or the default when no line has it
FieldIs(v, k, default) ==
  IF ValuesOf(k) = {} THEN v = default ELSE v \in ValuesOf(k)

\* C11: get_unit_status returns None and asks no show query when the
\* existence check fails; returns None when the show query exits non-zero;
\* and otherwise returns a UnitStatus whose load_state, active_state and
\* sub_state are the values of the LoadState, ActiveState and SubState
\* key=value lines, "unknown" for a missing key, whose description is ""
\* when missing, and whose enabled flag is the answer of the enabled check.
C11_UnitStatus ==
  Returned({"get_unit_status"}) =>
     /\ ~CallUnitExists =>
          /\ ret = NoUnit
          /\ \A i \in 1..Len(cmds) : cmds[i] # cmd_show(call.unit_name)
     /\ (CallUnitExists /\ SeenExit(call.oShow) # 0) => ret = NoUnit
     /\ (CallUnitExists /\ SeenExit(call.oShow) = 0) =>
          /\ ret # NoUnit
          /\ ret.name = call.unit_name
          /\ FieldIs(ret.load_state, <<"L","o","a","d","S","t","a","t","e">>, <<"u","n","k","n","o","w","n">>)
          /\ FieldIs(ret.active_state, <<"A","c","t","i","v","e","S","t","a","t","e">>, <<"u","n","k","n","o","w","n">>)
          /\ FieldIs(ret.sub_state, <<"S","u","b","S","t","a","t","e">>, <<"u","n","k","n","o","w","n">>)
          /\ FieldIs(ret.description, <<"D","e","s","c","r","i","p","t","i","o","n">>, <<>>)
          /\ ret.enabled = EnabledAnswer(call.oEnabled)

\* a description that holds "=", an ActiveState line missing, a line that is
\* no key=value line
C11_Witness ==
  /\ Returned({"get_unit_status"}) /\ CallUnitExists /\ SeenExit(call.oShow) = 0
  /\ Len(call.lines) = 3
  /\ call.lines[2].key = None
  /\ ret # NoUnit
  /\ ret.load_state = <<"l","o","a","d","e","d">>
  /\ ret.active_state = <<"u","n","k","n","o","w","n">>
  /\ ret.description = <<"a","=","b">>
  /\ ~ret.enabled

\* C12: get_journal_logs has the existence gate of the control operations
\* (for a unit that does not exist no journal query is made and the result
\* is a failure); for a unit that exists it returns (True, the stdout of the
\* query, unchanged) on exit code 0 and (False, a message that holds the
\* stderr) on any other exit code.
C12_JournalLogs ==
  Returned({"get_journal_logs"}) =>
     /\ ~CallUnitExists =>
          /\ ret[1] = FALSE
          /\ \A i \in 1..Len(cmds) : cmds[i][1] # <<"j","o","u","r","n","a","l","c","t","l">>
     /\ (CallUnitExists /\ SeenExit(call.oJournal) = 0) =>
          ret = <<TRUE, call.oJournal.stdout>>
     /\ (CallUnitExists /\ SeenExit(call.oJournal) # 0) =>
          /\ ret[1] = FALSE
          /\ contains(SeenStderr(call.oJournal), ret[2])
     /\ CallUnitExists =>
          Invocations(<<<<"j","o","u","r","n","a","l","c","t","l">>, <<"-","-","u","s","e","r">>, <<"-","u">>, call.unit_name, <<"-","n">>,
                        str(call.lines)>>) = 1

\* the query failed after it printed log lines: the text is the error message
C12_Witness ==
  /\ Returned({"get_journal_logs"}) /\ CallUnitExists
  /\ call.unit_name = <<"x">>
  /\ call.lines = 50
  /\ call.oJournal.rc = 1 /\ call.oJournal.stdout # <<>>
  /\ ret = <<FALSE, <<"F","a","i","l","e","d"," ","t","o"," ","r","e","t","r","i","e","v","e"," ","l","o","g","s"," ","f","o","r"," ","x",":"," ","F","a","i","l","e","d"," ","t","o"," ","s","e","e","k">>>>

\* C18: run_command always returns: when running the command raised, the
\* result is a non-zero exit code, an empty stdout and the description of the
\* failure as stderr; otherwise it is the command's own exit code, stdout and
\* stderr.
C18_InvokerNeverRaises ==
  (pc = "returned" /\ call.op = "run_command") =>
     IF call.o.raised
     THEN ret[1] # 0 /\ ret[2] = <<>> /\ ret[3] = call.o.exc
     ELSE ret = <<call.o.rc, call.o.stdout, call.o.stderr>>

C18_Witness ==
  /\ pc = "returned" /\ call.op = "run_command"
  /\ call.cmd = <<<<"n","o","-","s","u","c","h","-","p","r","o","g","r","a","m">>>>
  /\ call.o.raised
  /\ ret = <<1, <<>>, call.o.exc>>

(***************************************************************************)
(* cli.py: main, on the arguments as parse_args returns them.  A call of   *)
(* print is kept as its argument: a text, or the value handed to one of    *)
(* the formatters of formatters.py, which the model does not lay out.      *)
(***************************************************************************)
is_systemd_available(o) == run_command(o).rc = 0
is_user_session_active(o) == run_command(o).rc # 1

cmd_version == <<<<"s","y","s","t","e","m","c","t","l">>, <<"-","-","v","e","r","s","i","o","n">>>>
cmd_user_status == <<<<"s","y","s","t","e","m","c","t","l">>, <<"-","-","u","s","e","r">>, <<"s","t","a","t","u","s">>>>

print_text(text) == [text |-> text]
print_help == [help |-> TRUE]
print_unit_list(us) == [format_unit_list |-> us]
print_unit_status(u) == [format_unit_status |-> u]

\* the branches of lines 153-195 that print the message of a control
\* operation and return 0 or 1
main_control(r) ==
  [ret |-> IF r.ret[1] THEN 0 ELSE 1, cmds |-> r.cmds, printed |-> <<print_text(r.ret[2])>>]

\* the requested command, lines 143-206; e holds the outcomes of the
\* commands it runs
main_command(args, e) ==
  IF args.command = "unit" /\ args.unit_command = "list" THEN
    LET r == list_units(args.type, e.oOp, e.oEnabled)
    IN [ret |-> 0, cmds |-> r.cmds, printed |-> <<print_unit_list(r.ret)>>]
  ELSE IF args.command = "unit" /\ args.unit_command = "status" THEN
    LET r == get_unit_status(args.unit, e.oExists, e.oOp, e.oEnabled[1])
    IN IF r.ret # NoUnit
       THEN [ret |-> 0, cmds |-> r.cmds, printed |-> <<print_unit_status(r.ret)>>]
       ELSE [ret |-> 1, cmds |-> r.cmds,
             printed |-> <<print_text(<<"U","n","i","t"," ">> \o args.unit \o <<" ","n","o","t"," ","f","o","u","n","d",".">>)>>]
  ELSE IF args.command = "unit" /\ args.unit_command = "start" THEN
    main_control(start_unit(args.unit, e.oExists, e.oOp))
  ELSE IF args.command = "unit" /\ args.unit_command = "stop" THEN
    main_control(stop_unit(args.unit, e.oExists, e.oOp))
  ELSE IF args.command = "unit" /\ args.unit_command = "restart" THEN
    main_control(restart_unit(args.unit, e.oExists, e.oOp))
  ELSE IF args.command = "unit" /\ args.unit_command = "enable" THEN
    main_control(enable_unit(args.unit, e.oExists, e.oOp))
  ELSE IF args.command = "unit" /\ args.unit_command = "disable" THEN
    main_control(disable_unit(args.unit, e.oExists, e.oOp))
  ELSE IF args.command = "unit" /\ args.unit_command = "mask" THEN
    main_control(mask_unit(args.unit, e.oExists, e.oOp))
  ELSE IF args.command = "unit" /\ args.unit_command = "unmask" THEN
    main_control(unmask_unit(args.unit, e.oExists, e.oOp))
  ELSE IF args.command = "unit" /\ args.unit_command = "logs" THEN
    main_control(get_journal_logs(args.unit, args.lines, e.oExists, e.oOp))
  ELSE \* "interactive", once run_interactive has returned
    [ret |-> 0, cmds |-> <<>>, printed |-> <<>>]

main_session_first(args, e) ==
  IF args.command = "None"
  THEN [ret |-> 0, cmds |-> <<>>, printed |-> <<print_help>>]
  ELSE IF ~is_user_session_active(e.oSession)
  THEN [ret |-> 1, cmds |-> <<cmd_user_status>>,
        printed |-> <<print_text(<<"E","r","r","o","r",":"," ","s","y","s","t","e","m","d"," ","u","s","e","r"," ","s","e","s","s","i","o","n"," ","i","s"," ","n","o","t"," ","a","c","t","i","v","e",".">>)>>]
  ELSE IF ~is_systemd_available(e.oVersion)
  THEN [ret |-> 1, cmds |-> <<cmd_user_status, cmd_version>>,
        printed |-> <<print_text(<<"E","r","r","o","r",":"," ","s","y","s","t","e","m","d"," ","i","s"," ","n","o","t"," ","a","v","a","i","l","a","b","l","e"," ","o","n"," ","t","h","i","s"," ","s","y","s","t","e","m",".">>)>>]
  ELSE LET r == main_command(args, e)
       IN [ret |-> r.ret, cmds |-> <<cmd_user_status, cmd_version>> \o r.cmds,
           printed |-> r.printed]
main(args, e) ==
  IF args.command = "None"
  THEN [ret |-> 0, cmds |-> <<>>, printed |-> <<print_help>>]
  ELSE IF ~is_systemd_available(e.oVersion)
  THEN [ret |-> 1, cmds |-> <<cmd_version>>,
        printed |-> <<print_text(<<"E","r","r","o","r",":"," ","s","y","s","t","e","m","d"," ","i","s"," ","n","o","t"," ","a","v","a","i","l","a","b","l","e"," ","o","n"," ","t","h","i","s"," ","s","y","s","t","e","m",".">>)>>]
  ELSE IF ~is_user_session_active(e.oSession)
  THEN [ret |-> 1, cmds |-> <<cmd_version, cmd_user_status>>,
        printed |-> <<print_text(<<"E","r","r","o","r",":"," ","s","y","s","t","e","m","d"," ","u","s","e","r"," ","s","e","s","s","i","o","n"," ","i","s"," ","n","o","t"," ","a","c","t","i","v","e",".">>)>>]
  ELSE LET r == main_command(args, e)
       IN [ret |-> r.ret, cmds |-> <<cmd_version, cmd_user_status>> \o r.cmds,
           printed |-> r.printed]

(***************************************************************************)
(* CliSpec: one run of main.                                               *)
(***************************************************************************)
\* parsed_args: command and unit_command are "None" when not given
Args(command, unit_command, unit_name, type, lines) ==
  [command |-> command, unit_command |-> unit_command, unit |-> unit_name,
   type |-> type, lines |-> lines]

ControlCommands == {"start", "stop", "restart", "enable", "disable", "mask", "unmask"}

\* outcomes of `systemctl --version`
VersionOutcomes ==
  { Exit(0, <<"s","y","s","t","e","m","d"," ","2","5","5","\n">>, <<>>),
    Exit(1, <<>>, <<"e","r","r","o","r">>),
    Raise(<<"N","o"," ","s","u","c","h"," ","f","i","l","e"," ","o","r"," ","d","i","r","e","c","t","o","r","y",":"," ","'","s","y","s","t","e","m","c","t","l","'">>) }
\* outcomes of `systemctl --user status`
SessionOutcomes ==
  { Exit(0, <<"S","t","a","t","e",":"," ","r","u","n","n","i","n","g","\n">>, <<>>),
    Exit(3, <<"S","t","a","t","e",":"," ","d","e","g","r","a","d","e","d","\n">>, <<>>),
    Exit(1, <<>>, <<"F","a","i","l","e","d"," ","t","o"," ","c","o","n","n","e","c","t"," ","t","o"," ","b","u","s">>),
    Raise(<<"N","o"," ","s","u","c","h"," ","f","i","l","e"," ","o","r"," ","d","i","r","e","c","t","o","r","y",":"," ","'","s","y","s","t","e","m","c","t","l","'">>) }
CliExistsOutcomes ==
  { Exit(0, <<"1"," ","u","n","i","t"," ","f","i","l","e","s"," ","l","i","s","t","e","d",".","\n">>, <<>>),
    Exit(0, <<"0"," ","u","n","i","t"," ","f","i","l","e","s"," ","l","i","s","t","e","d",".","\n">>, <<>>),
    Exit(1, <<>>, <<"F","a","i","l","e","d"," ","t","o"," ","c","o","n","n","e","c","t"," ","t","o"," ","b","u","s">>) }
CliShowOutcomes ==
  { Exit(0, <<"L","o","a","d","S","t","a","t","e","=","l","o","a","d","e","d","\n","A","c","t","i","v","e","S","t","a","t","e","=","a","c","t","i","v","e","\n","S","u","b","S","t","a","t","e","=","r","u","n","n","i","n","g","\n","D","e","s","c","r","i","p","t","i","o","n","=","F","o","o","\n">>, <<>>),
    Exit(0, <<>>, <<>>),
    Exit(1, <<>>, <<"F","a","i","l","e","d"," ","t","o"," ","c","o","n","n","e","c","t"," ","t","o"," ","b","u","s">>),
    Raise(<<"N","o"," ","s","u","c","h"," ","f","i","l","e"," ","o","r"," ","d","i","r","e","c","t","o","r","y",":"," ","'","s","y","s","t","e","m","c","t","l","'">>) }
CliListOutcomes ==
  { Exit(0, <<"U","N","I","T"," ","L","O","A","D"," ","A","C","T","I","V","E"," ","S","U","B"," ","D","E","S","C","R","I","P","T","I","O","N","\n","f","o","o",".","s","e","r","v","i","c","e"," ","l","o","a","d","e","d"," ","a","c","t","i","v","e"," ","r","u","n","n","i","n","g"," ","F","o","o","\n","\n","1"," ","l","o","a","d","e","d"," ","u","n","i","t","s"," ","l","i","s","t","e","d",".","\n">>, <<>>),
    Exit(0, <<"U","N","I","T"," ","L","O","A","D"," ","A","C","T","I","V","E"," ","S","U","B"," ","D","E","S","C","R","I","P","T","I","O","N","\n","\n","0"," ","l","o","a","d","e","d"," ","u","n","i","t","s"," ","l","i","s","t","e","d",".","\n">>, <<>>),
    Exit(1, <<>>, <<"F","a","i","l","e","d"," ","t","o"," ","c","o","n","n","e","c","t"," ","t","o"," ","b","u","s">>),
    Raise(<<"N","o"," ","s","u","c","h"," ","f","i","l","e"," ","o","r"," ","d","i","r","e","c","t","o","r","y",":"," ","'","s","y","s","t","e","m","c","t","l","'">>) }

CliCall(args, oVersion, oSession, oExists, oOp) ==
  [op |-> "main", args |-> args, oVersion |-> oVersion, oSession |-> oSession,
   oExists |-> oExists, oOp |-> oOp, oEnabled |-> EnabledOddRows]

CliInit ==
  /\ TuiNew
  /\ pc = "call"
  /\ ret = None
  /\ cmds = <<>>
  /\ \E ov \in VersionOutcomes, os \in SessionOutcomes :
       \/ call = CliCall(Args("None", "None", None, None, 50), ov, os, Exit(0, <<>>, <<>>),
                         Exit(0, <<>>, <<>>))
       \/ call = CliCall(Args("interactive", "None", None, None, 50), ov, os,
                         Exit(0, <<>>, <<>>), Exit(0, <<>>, <<>>))
       \/ \E t \in UnitTypes, oo \in CliListOutcomes :
            call = CliCall(Args("unit", "list", None, t, 50), ov, os, Exit(0, <<>>, <<>>), oo)
       \/ \E n \in UnitNames, oe \in CliExistsOutcomes, oo \in CliShowOutcomes :
            call = CliCall(Args("unit", "status", n, None, 50), ov, os, oe, oo)
       \/ \E uc \in ControlCommands, n \in UnitNames, oe \in CliExistsOutcomes,
             oo \in VerbOutcomes :
            call = CliCall(Args("unit", uc, n, None, 50), ov, os, oe, oo)
       \/ \E n \in UnitNames, l \in LineCounts, oe \in CliExistsOutcomes,
             oo \in JournalOutcomes :
            call = CliCall(Args("unit", "logs", n, None, l), ov, os, oe, oo)

\* main returns
MainReturn(r) ==
  /\ pc' = "returned"
  /\ ret' = r.ret
  /\ cmds' = r.cmds
  /\ printed' = r.printed
  /\ UNCHANGED <<locals, shown, call, key, terminal, screen, units, selected_idx, offset, filter_type, max_lines,
                 height, unit, message, typed>>

MainCalled == pc = "call" /\ call.op = "main"
ChecksPass == is_systemd_available(call.oVersion) /\ is_user_session_active(call.oSession)
UnitCommand(c) ==
  MainCalled /\ ChecksPass /\ call.args.command = "unit" /\ call.args.unit_command = c

Main_help ==
  /\ MainCalled /\ call.args.command = "None"
  /\ MainReturn(main(call.args, call))
Main_unavailable ==
  /\ MainCalled /\ call.args.command # "None"
  /\ ~is_systemd_available(call.oVersion)
  /\ MainReturn(main(call.args, call))
Main_no_session ==
  /\ MainCalled /\ call.args.command # "None"
  /\ is_systemd_available(call.oVersion)
  /\ ~is_user_session_active(call.oSession)
  /\ MainReturn(main(call.args, call))
Main_list == UnitCommand("list") /\ MainReturn(main(call.args, call))
Main_status == UnitCommand("status") /\ MainReturn(main(call.args, call))
Main_start == UnitCommand("start") /\ MainReturn(main(call.args, call))
Main_stop == UnitCommand("stop") /\ MainReturn(main(call.args, call))
Main_restart == UnitCommand("restart") /\ MainReturn(main(call.args, call))
Main_enable == UnitCommand("enable") /\ MainReturn(main(call.args, call))
Main_disable == UnitCommand("disable") /\ MainReturn(main(call.args, call))
Main_mask == UnitCommand("mask") /\ MainReturn(main(call.args, call))
Main_unmask == UnitCommand("unmask") /\ MainReturn(main(call.args, call))
Main_logs == UnitCommand("logs") /\ MainReturn(main(call.args, call))
\* run_interactive: the session (Spec) ends by q and main returns 0, or an
\* exception leaves the session and main with it
Main_interactive ==
  /\ MainCalled /\ ChecksPass /\ call.args.command = "interactive"
  /\ \/ MainReturn(main(call.args, call))
     \/ /\ pc' = "raised"
        /\ cmds' = <<cmd_version, cmd_user_status>>
        /\ UNCHANGED <<locals, shown, call, ret, printed, typed, key, terminal, screen, units, selected_idx, offset,
                       filter_type, max_lines, height, unit, message>>

CliNext ==
  \/ Main_help
  \/ Main_unavailable
  \/ Main_no_session
  \/ Main_list
  \/ Main_status
  \/ Main_start
  \/ Main_stop
  \/ Main_restart
  \/ Main_enable
  \/ Main_disable
  \/ Main_mask
  \/ Main_unmask
  \/ Main_logs
  \/ Main_interactive

CliSpec == CliInit /\ [][CliNext]_vars

(***************************************************************************)
(* Claims about main (CliSpec).                                            *)
(***************************************************************************)
MainReturned == pc = "returned" /\ call.op = "main"

\* the two checks, as the outcomes of their commands decide them
Available == SeenExit(call.oVersion) = 0
SessionActive == SeenExit(call.oSession) # 1

\* the operation behind the subcommand succeeded: the unit exists where one
\* is named, and the command of the operation exited 0
OperationSucceeded ==
  /\ call.args.unit_command # "list" =>
       (SeenExit(call.oExists) = 0
          /\ ~contains(<<"0"," ","u","n","i","t"," ","f","i","l","e","s"," ","l","i","s","t","e","d",".">>, call.oExists.stdout))
  /\ SeenExit(call.oOp) = 0

\* C16: for every subcommand (list, status, start, stop, restart, enable,
\* disable, mask, unmask, logs) main returns 0 when the operation succeeds
\* and 1 on any failure: unit not found, a command that failed, a check
\* before the command that failed.
C16_ExitCode ==
  (MainReturned /\ call.args.command = "unit") =>
     ret = (IF Available /\ SessionActive /\ OperationSucceeded THEN 0 ELSE 1)

\* C17: when a command is given and the availability check fails, or it
\* passes and the session check fails, main prints one error message, returns
\* 1 and runs no command but the checks'; the availability check is made
\* before the session check, and both before the requested command.
C17_ChecksFirst ==
  (MainReturned /\ call.args.command # "None") =>
     /\ ~Available =>
          /\ ret = 1
          /\ printed = <<print_text(<<"E","r","r","o","r",":"," ","s","y","s","t","e","m","d"," ","i","s"," ","n","o","t"," ","a","v","a","i","l","a","b","l","e"," ","o","n"," ","t","h","i","s"," ","s","y","s","t","e","m",".">>)>>
          /\ cmds = <<cmd_version>>
     /\ (Available /\ ~SessionActive) =>
          /\ ret = 1
          /\ printed = <<print_text(<<"E","r","r","o","r",":"," ","s","y","s","t","e","m","d"," ","u","s","e","r"," ","s","e","s","s","i","o","n"," ","i","s"," ","n","o","t"," ","a","c","t","i","v","e",".">>)>>
          /\ cmds = <<cmd_version, cmd_user_status>>
     /\ (Available /\ SessionActive) =>
          /\ Len(cmds) >= 2
          /\ cmds[1] = cmd_version
          /\ cmds[2] = cmd_user_status
          /\ \A i \in 3..Len(cmds) : cmds[i] \notin {cmd_version, cmd_user_status}

\* systemctl runs but the session bus does not answer: start is not tried
C17_Witness ==
  /\ MainReturned
  /\ call.args.unit_command = "start"
  /\ call.oVersion.rc = 0 /\ ~call.oVersion.raised
  /\ call.oSession.rc = 1 /\ ~call.oSession.raised
  /\ SeenExit(call.oExists) = 0 /\ SeenExit(call.oOp) = 0
  /\ ret = 1
  /\ Len(printed) = 1

(***************************************************************************)
(* interactive.py: the dashboard.                                          *)
(*                                                                         *)
(* A state is a point where the session waits for input: getch in run      *)
(* ("list"), getch in handle_unit_selection ("detail"), getch in           *)
(* show_message ("message"), getstr in handle_filter_input ("filter").  An  *)
(* action is one input and all the code that runs until the next wait,     *)
(* the redraw included.  The curses calls are taken to succeed.            *)
(***************************************************************************)
\* the rows of screen.getmaxyx()
Heights == MinHeight..(HeaderFooterRows + MaxRows)

\* what the environment answers the dashboard's list query with: a table of
\* k units, u1.service .. uk.service
RowText(k) ==
  <<"u">> \o str(k) \o <<".","s","e","r","v","i","c","e"," ","l","o","a","d","e","d"," ","a","c","t","i","v","e"," ","r","u","n","n","i","n","g"," ","U","n","i","t"," ">> \o str(k)

RECURSIVE RowTexts(_)
RowTexts(k) ==
  IF k = 0 THEN <<>> ELSE RowTexts(k - 1) \o RowText(k) \o <<"\n">>

Table(k) ==
  <<"U","N","I","T"," ","L","O","A","D"," ","A","C","T","I","V","E"," ","S","U","B"," ","D","E","S","C","R","I","P","T","I","O","N","\n">> \o RowTexts(k) \o <<"\n">>
    \o str(k) \o <<" ","l","o","a","d","e","d"," ","u","n","i","t","s"," ","l","i","s","t","e","d",".","\n">>

TuiListOutcomes ==
  {Exit(0, Table(k), <<>>) : k \in 0..MaxUnits}
    \cup {Exit(1, <<>>, <<"F","a","i","l","e","d"," ","t","o"," ","c","o","n","n","e","c","t"," ","t","o"," ","b","u","s">>)}

\* the k-th unit listed is enabled when k is odd
TuiEnabled ==
  [k \in 1..(MaxUnits + NavMaxUnits) |->
     IF k % 2 = 1 THEN Exit(0, <<"e","n","a","b","l","e","d","\n">>, <<>>) ELSE Exit(1, <<"d","i","s","a","b","l","e","d","\n">>, <<>>)]

\* what the environment answers a Detail action with
TuiExistsOutcomes ==
  { Exit(0, <<"1"," ","u","n","i","t"," ","f","i","l","e","s"," ","l","i","s","t","e","d",".","\n">>, <<>>), Exit(0, <<"0"," ","u","n","i","t"," ","f","i","l","e","s"," ","l","i","s","t","e","d",".","\n">>, <<>>) }
TuiVerbOutcomes ==
  { Exit(0, <<>>, <<>>), Exit(1, <<>>, <<"A","c","c","e","s","s"," ","d","e","n","i","e","d">>) }
TuiJournalOutcomes ==
  { Exit(0, <<"s","t","a","r","t","e","d","\n","s","t","o","p","p","e","d","\n">>, <<>>), Exit(1, <<>>, <<"N","o"," ","j","o","u","r","n","a","l"," ","f","i","l","e","s">>) }

\* getstr(2, 0, 20): the bytes typed, 20 at most.  A byte is written as the
\* ASCII character it stands for, or as "<FF>", a byte no UTF-8 text holds.
FilterInputs == { <<>>, <<" "," ">>, <<"s","e","r","v","i","c","e">>, <<" ","s","e","r","v","i","c","e"," ">>, <<"<FF>">> }

\* bytes.decode('utf-8'): the text, or UnicodeDecodeError on a byte that is
\* not UTF-8
decode(bytes) ==
  IF \E i \in 1..Len(bytes) : bytes[i] = "<FF>"
  THEN [raised |-> TRUE, text |-> <<>>]
  ELSE [raised |-> FALSE, text |-> bytes]

\* load_units, with self.filter_type as it is then: the list it stores and
\* the commands it runs
load_units(type, oList) == list_units(type, oList, TuiEnabled)

\* draw(): the number of rows of units, from the rows of the terminal
draw_max_lines == height - HeaderFooterRows

\* draw(): the rows of units it writes, for a terminal of h rows: the loop of
\* lines 72-96 over units[offset:offset + max_lines], with its break before
\* the last row; reverse is the A_REVERSE attribute
RECURSIVE draw_loop_no_offset(_, _, _, _, _)
draw_loop_no_offset(visible_units, i, h, off, sel) ==
  IF i >= Len(visible_units) \/ i + 2 >= h - 1 THEN <<>>
  ELSE <<[line_num |-> i + 2, unit |-> visible_units[i + 1], reverse |-> (i = sel)]>>
         \o draw_loop_no_offset(visible_units, i + 1, h, off, sel)
RECURSIVE draw_loop(_, _, _, _, _)
draw_loop(visible_units, i, h, off, sel) ==
  IF i >= Len(visible_units) \/ i + 2 >= h - 1 THEN <<>>
  ELSE <<[line_num |-> i + 2, unit |-> visible_units[i + 1], reverse |-> (i + off = sel)]>>
         \o draw_loop(visible_units, i + 1, h, off, sel)

draw_rows(us, off, sel, h) ==
  draw_loop(slice(us, off, off + (h - HeaderFooterRows)), 0, h, off, sel)

\* cleanup(): endwin, when initscr has answered a window
cleanup == IF screen THEN "cooked" ELSE terminal

Raised_no_cleanup ==
  /\ pc' = "crashed"
  /\ terminal' = terminal
\* an exception leaves run through its finally: cleanup
Raised ==
  /\ pc' = "crashed"
  /\ terminal' = cleanup

\* run, to the first getch: init_curses, load_units, draw
Start ==
  /\ pc = "new"
  /\ key' = ""
  /\ typed' = None
  /\ \E oList \in TuiListOutcomes :
       LET r == load_units(filter_type, oList) IN
       /\ units' = r.ret
       /\ cmds' = r.cmds
  /\ screen' = TRUE
  /\ terminal' = "curses"
  /\ max_lines' = draw_max_lines
  /\ pc' = "list"
  /\ UNCHANGED <<locals, shown, selected_idx, offset, filter_type, height, unit, message, call, ret, printed>>

\* the terminal is resized while run waits: getch answers KEY_RESIZE, no
\* branch takes it, and draw reads the new size
ListResize ==
  /\ pc = "list"
  /\ key' = "KEY_RESIZE"
  /\ typed' = None
  /\ \E h \in Heights \ {height} :
       /\ height' = h
       /\ max_lines' = h - HeaderFooterRows
  /\ cmds' = <<>>
  /\ UNCHANGED <<locals, shown, pc, terminal, screen, units, selected_idx, offset, filter_type,
                 unit, message, call, ret, printed>>

\* q
KeyQuit ==
  /\ pc = "list"
  /\ key' = "q"
  /\ typed' = None
  /\ pc' = "done"
  /\ terminal' = cleanup
  /\ cmds' = <<>>
  /\ UNCHANGED <<locals, shown, screen, units, selected_idx, offset, filter_type, max_lines, height,
                 unit, message, call, ret, printed>>

max(a, b) == IF a > b THEN a ELSE b

KeyUp_no_scroll ==
  /\ pc = "list"
  /\ key' = "KEY_UP"
  /\ typed' = None
  /\ IF selected_idx > 0
     THEN /\ selected_idx' = selected_idx - 1
          /\ offset' = offset
     ELSE UNCHANGED <<selected_idx, offset>>
  /\ max_lines' = draw_max_lines
  /\ cmds' = <<>>
  /\ UNCHANGED <<locals, shown, pc, terminal, screen, units, filter_type, height, unit, message, call, ret, printed>>
\* KEY_UP
KeyUp ==
  /\ pc = "list"
  /\ key' = "KEY_UP"
  /\ typed' = None
  /\ IF selected_idx > 0
     THEN /\ selected_idx' = selected_idx - 1
          /\ offset' = IF selected_idx - 1 < offset THEN max(0, offset - 1) ELSE offset
     ELSE UNCHANGED <<selected_idx, offset>>
  /\ max_lines' = draw_max_lines
  /\ cmds' = <<>>
  /\ UNCHANGED <<locals, shown, pc, terminal, screen, units, filter_type, height, unit, message, call, ret, printed>>

KeyDown_wrap ==
  /\ pc = "list"
  /\ key' = "KEY_DOWN"
  /\ typed' = None
  /\ IF selected_idx < Len(units) - 1
     THEN /\ selected_idx' = selected_idx + 1
          /\ offset' = IF selected_idx + 1 >= offset + max_lines THEN offset + 1 ELSE offset
     ELSE /\ selected_idx' = 0
          /\ offset' = 0
  /\ max_lines' = draw_max_lines
  /\ cmds' = <<>>
  /\ UNCHANGED <<locals, shown, pc, terminal, screen, units, filter_type, height, unit, message, call, ret, printed>>
\* KEY_DOWN
KeyDown ==
  /\ pc = "list"
  /\ key' = "KEY_DOWN"
  /\ typed' = None
  /\ IF selected_idx < Len(units) - 1
     THEN /\ selected_idx' = selected_idx + 1
          /\ offset' = IF selected_idx + 1 >= offset + max_lines THEN offset + 1 ELSE offset
     ELSE UNCHANGED <<selected_idx, offset>>
  /\ max_lines' = draw_max_lines
  /\ cmds' = <<>>
  /\ UNCHANGED <<locals, shown, pc, terminal, screen, units, filter_type, height, unit, message, call, ret, printed>>

\* Enter: self.units[self.selected_idx] raises IndexError past the end of
\* the list (selected_idx is never negative)
KeyEnter ==
  /\ pc = "list"
  /\ key' = "KEY_ENTER"
  /\ typed' = None
  /\ IF units = <<>>
     THEN /\ max_lines' = draw_max_lines
          /\ UNCHANGED <<pc, terminal, unit>>
     ELSE IF selected_idx >= Len(units)
     THEN /\ Raised
          /\ UNCHANGED <<max_lines, unit>>
     ELSE /\ pc' = "detail"
          /\ unit' = units[selected_idx + 1]
          /\ UNCHANGED <<terminal, max_lines>>
  /\ cmds' = <<>>
  /\ UNCHANGED <<locals, shown, screen, units, selected_idx, offset, filter_type, height, message, call, ret, printed>>

\* f: handle_filter_input, to its getstr
KeyFilter ==
  /\ pc = "list"
  /\ key' = "f"
  /\ typed' = None
  /\ pc' = "filter"
  /\ cmds' = <<>>
  /\ UNCHANGED <<locals, shown, terminal, screen, units, selected_idx, offset, filter_type, max_lines,
                 height, unit, message, call, ret, printed>>

\* the line typed at getstr: the rest of handle_filter_input, then draw
FilterEnter ==
  /\ pc = "filter"
  /\ key' = "getstr"
  /\ \E bytes \in FilterInputs :
       /\ typed' = bytes
       /\ IF decode(bytes).raised
          THEN /\ Raised
               /\ cmds' = <<>>
               /\ UNCHANGED <<units, selected_idx, offset, filter_type, max_lines>>
          ELSE LET input_str == strip(decode(bytes).text)
                   new_filter == IF input_str # <<>> THEN input_str ELSE None
               IN /\ filter_type' = new_filter
                  /\ selected_idx' = 0
                  /\ offset' = 0
                  /\ \E oList \in TuiListOutcomes :
                       LET r == load_units(new_filter, oList) IN
                       /\ units' = r.ret
                       /\ cmds' = r.cmds
                  /\ max_lines' = draw_max_lines
                  /\ pc' = "list"
                  /\ UNCHANGED terminal
  /\ UNCHANGED <<locals, shown, screen, height, unit, message, call, ret, printed>>

KeyRefresh_reset ==
  /\ pc = "list"
  /\ key' = "r"
  /\ typed' = None
  /\ \E oList \in TuiListOutcomes :
       LET r == load_units(filter_type, oList) IN
       /\ units' = r.ret
       /\ cmds' = r.cmds
  /\ selected_idx' = 0
  /\ offset' = 0
  /\ max_lines' = draw_max_lines
  /\ UNCHANGED <<locals, shown, pc, terminal, screen, filter_type, height, unit, message, call, ret, printed>>
\* r: load_units, then draw
KeyRefresh ==
  /\ pc = "list"
  /\ key' = "r"
  /\ typed' = None
  /\ \E oList \in TuiListOutcomes :
       LET r == load_units(filter_type, oList) IN
       /\ units' = r.ret
       /\ cmds' = r.cmds
  /\ max_lines' = draw_max_lines
  /\ UNCHANGED <<locals, shown, pc, terminal, screen, selected_idx, offset, filter_type, height,
                 unit, message, call, ret, printed>>

\* any other key in the list
KeyOther ==
  /\ pc = "list"
  /\ key' = "other"
  /\ typed' = None
  /\ max_lines' = draw_max_lines
  /\ cmds' = <<>>
  /\ UNCHANGED <<locals, shown, pc, terminal, screen, units, selected_idx, offset, filter_type, height,
                 unit, message, call, ret, printed>>

DetailBack_reload ==
  /\ pc = "detail"
  /\ key' = "b"
  /\ typed' = None
  /\ pc' = "list"
  /\ unit' = NoUnit
  /\ max_lines' = draw_max_lines
  /\ \E oList \in TuiListOutcomes :
       LET r == load_units(filter_type, oList) IN
       /\ units' = r.ret
       /\ cmds' = r.cmds
  /\ UNCHANGED <<locals, shown, terminal, screen, selected_idx, offset, filter_type, height,
                 message, call, ret, printed>>
\* b in handle_unit_selection: back to run's loop, which draws
DetailBack ==
  /\ pc = "detail"
  /\ key' = "b"
  /\ typed' = None
  /\ pc' = "list"
  /\ unit' = NoUnit
  /\ max_lines' = draw_max_lines
  /\ cmds' = <<>>
  /\ UNCHANGED <<locals, shown, terminal, screen, units, selected_idx, offset, filter_type, height,
                 message, call, ret, printed>>

\* the manager function c was called and returned r; show_message(text), to
\* its getch
ShowMessage(text, c, r) ==
  /\ pc' = "message"
  /\ message' = text
  /\ call' = c
  /\ ret' = r.ret
  /\ cmds' = r.cmds
  /\ UNCHANGED <<locals, shown, terminal, screen, units, selected_idx, offset, filter_type, max_lines,
                 height, unit, printed>>

\* s, t, r, e, d in handle_unit_selection
DetailStart ==
  /\ pc = "detail"
  /\ key' = "s"
  /\ typed' = None
  /\ \E oExists \in TuiExistsOutcomes, oVerb \in TuiVerbOutcomes :
       LET r == start_unit(unit.name, oExists, oVerb) IN
       ShowMessage(r.ret[2],
                   [op |-> "start_unit", unit_name |-> unit.name, oExists |-> oExists,
                    oVerb |-> oVerb], r)
DetailStop ==
  /\ pc = "detail"
  /\ key' = "t"
  /\ typed' = None
  /\ \E oExists \in TuiExistsOutcomes, oVerb \in TuiVerbOutcomes :
       LET r == stop_unit(unit.name, oExists, oVerb) IN
       ShowMessage(r.ret[2],
                   [op |-> "stop_unit", unit_name |-> unit.name, oExists |-> oExists,
                    oVerb |-> oVerb], r)
DetailRestart ==
  /\ pc = "detail"
  /\ key' = "r"
  /\ typed' = None
  /\ \E oExists \in TuiExistsOutcomes, oVerb \in TuiVerbOutcomes :
       LET r == restart_unit(unit.name, oExists, oVerb) IN
       ShowMessage(r.ret[2],
                   [op |-> "restart_unit", unit_name |-> unit.name, oExists |-> oExists,
                    oVerb |-> oVerb], r)
DetailEnable ==
  /\ pc = "detail"
  /\ key' = "e"
  /\ typed' = None
  /\ \E oExists \in TuiExistsOutcomes, oVerb \in TuiVerbOutcomes :
       LET r == enable_unit(unit.name, oExists, oVerb) IN
       ShowMessage(r.ret[2],
                   [op |-> "enable_unit", unit_name |-> unit.name, oExists |-> oExists,
                    oVerb |-> oVerb], r)
DetailDisable ==
  /\ pc = "detail"
  /\ key' = "d"
  /\ typed' = None
  /\ \E oExists \in TuiExistsOutcomes, oVerb \in TuiVerbOutcomes :
       LET r == disable_unit(unit.name, oExists, oVerb) IN
       ShowMessage(r.ret[2],
                   [op |-> "disable_unit", unit_name |-> unit.name, oExists |-> oExists,
                    oVerb |-> oVerb], r)

\* l in handle_unit_selection
DetailLogs ==
  /\ pc = "detail"
  /\ key' = "l"
  /\ typed' = None
  /\ \E oExists \in TuiExistsOutcomes, oJournal \in TuiJournalOutcomes :
       LET r == get_journal_logs(unit.name, 20, oExists, oJournal) IN
       ShowMessage(IF r.ret[1] THEN r.ret[2] ELSE <<"E","r","r","o","r",":"," ">> \o r.ret[2],
                   [op |-> "get_journal_logs", unit_name |-> unit.name, lines |-> 20,
                    oExists |-> oExists, oJournal |-> oJournal], r)

\* any other key in handle_unit_selection, a resize of the terminal included
DetailOther ==
  /\ pc = "detail"
  /\ key' = "other"
  /\ typed' = None
  /\ \E h \in Heights : height' = h
  /\ cmds' = <<>>
  /\ UNCHANGED <<locals, shown, pc, terminal, screen, units, selected_idx, offset, filter_type, max_lines,
                 unit, message, call, ret, printed>>

MessageKey_to_list ==
  /\ pc = "message"
  /\ key' = "any"
  /\ typed' = None
  /\ pc' = "list"
  /\ message' = None
  /\ call' = None
  /\ ret' = None
  /\ cmds' = <<>>
  /\ max_lines' = draw_max_lines
  /\ unit' = NoUnit
  /\ UNCHANGED <<locals, shown, terminal, screen, units, selected_idx, offset, filter_type, height, printed>>
\* any key at show_message's getch: back to handle_unit_selection
MessageKey ==
  /\ pc = "message"
  /\ key' = "any"
  /\ typed' = None
  /\ pc' = "detail"
  /\ message' = None
  /\ call' = None
  /\ ret' = None
  /\ cmds' = <<>>
  /\ UNCHANGED <<locals, shown, terminal, screen, units, selected_idx, offset, filter_type, max_lines,
                 height, unit, printed>>

Init ==
  /\ TuiNew
  /\ pc = "new"
  /\ call = None
  /\ ret = None
  /\ cmds = <<>>

Next ==
  \/ Start
  \/ ListResize
  \/ KeyQuit
  \/ KeyUp
  \/ KeyDown
  \/ KeyEnter
  \/ KeyFilter
  \/ FilterEnter
  \/ KeyRefresh
  \/ KeyOther
  \/ DetailBack
  \/ DetailStart
  \/ DetailStop
  \/ DetailRestart
  \/ DetailEnable
  \/ DetailDisable
  \/ DetailLogs
  \/ DetailOther
  \/ MessageKey

Spec == Init /\ [][Next]_vars

(***************************************************************************)
(* NavSpec: the list view with a list of units and a terminal size that do *)
(* not change, from any selection and scroll position that shows the       *)
(* selected unit, under Up and Down only.                                  *)
(***************************************************************************)
NavInit ==
  /\ pc = "list"
  /\ key = ""
  /\ terminal = "curses"
  /\ screen = TRUE
  /\ \E n \in 1..NavMaxUnits : units = load_units(None, Exit(0, Table(n), <<>>)).ret
  /\ filter_type = None
  /\ height \in MinHeight..(HeaderFooterRows + NavMaxRows)
  /\ max_lines = height - HeaderFooterRows
  /\ selected_idx \in 0..(Len(units) - 1)
  /\ offset \in 0..selected_idx
  /\ selected_idx <= offset + max_lines - 1
  /\ unit = NoUnit
  /\ message = None
  /\ printed = <<>>
  /\ typed = None
  /\ locals = NoLocals
  /\ shown = <<>>
  /\ call = None
  /\ ret = None
  /\ cmds = <<>>

NavNext == KeyUp \/ KeyDown

NavSpec == NavInit /\ [][NavNext]_vars

(***************************************************************************)
(* WrapSpec: one call of show_message, statement by statement, on any      *)
(* message of MaxMsgLines lines at most and any terminal of MaxWidth       *)
(* columns and MaxHeight rows at most.                                     *)
(***************************************************************************)
MsgLineChoices == {<<>>, <<"a","b">>, <<"a","b","c">>, <<"a","b","c","d">>, <<"a","b","c","d","e","f","g">>}
MsgLineSeqs == UNION {[1..n -> MsgLineChoices] : n \in 1..MaxMsgLines}
Widths == 1..MaxWidth

RECURSIVE JoinText(_)
JoinText(ls) ==
  IF Len(ls) = 1 THEN ls[1]
  ELSE ls[1] \o <<"\n">> \o JoinText(Tail(ls))

\* seq[:b] for any b: a negative b counts from the end
slice_until(seq, b) ==
  IF b >= 0 THEN slice(seq, 0, b)
  ELSE slice(seq, 0, IF Len(seq) + b > 0 THEN Len(seq) + b ELSE 0)

\* show_message(message) is entered, in a terminal of any number of rows
WrapInit ==
  /\ pc = "show_message"
  /\ key = ""
  /\ terminal = "curses"
  /\ screen = TRUE
  /\ units = <<>>
  /\ selected_idx = 0
  /\ offset = 0
  /\ filter_type = None
  /\ max_lines = 0
  /\ height \in 1..MaxHeight
  /\ unit = NoUnit
  /\ \E ls \in MsgLineSeqs :
       /\ call = [fn |-> "show_message", lines |-> ls]
       /\ message = JoinText(ls)
  /\ ret = None
  /\ cmds = <<>>
  /\ printed = <<>>
  /\ typed = None
  /\ locals = NoLocals
  /\ shown = <<>>

\* lines 212-221: the screen is there; getmaxyx, the title, lines = [] and
\* the for loop is set up
WrapSplit ==
  /\ pc = "show_message"
  /\ screen
  /\ \E w \in Widths :
       locals' = [width |-> w, rest |-> split(message, "\n"), line |-> None, lines |-> <<>>]
  /\ pc' = "for"
  /\ UNCHANGED <<key, terminal, screen, units, selected_idx, offset, filter_type, max_lines, height,
                 unit, message, call, ret, cmds, printed, typed, shown>>

\* line 221: the for loop takes the next line of the message
WrapFor ==
  /\ pc = "for"
  /\ locals.rest # <<>>
  /\ locals' = [locals EXCEPT !.line = Head(locals.rest), !.rest = Tail(locals.rest)]
  /\ pc' = "while"
  /\ UNCHANGED <<key, terminal, screen, units, selected_idx, offset, filter_type, max_lines, height,
                 unit, message, call, ret, cmds, printed, typed, shown>>

\* lines 222-224: one turn of the while loop
WrapWhile ==
  /\ pc = "while"
  /\ Len(locals.line) > locals.width
  /\ locals' = [locals EXCEPT !.lines = Append(locals.lines, slice(locals.line, 0, locals.width)),
                              !.line = slice(locals.line, locals.width, Len(locals.line))]
  /\ UNCHANGED <<pc, key, terminal, screen, units, selected_idx, offset, filter_type, max_lines,
                 height, unit, message, call, ret, cmds, printed, typed, shown>>

\* line 225: the while loop is left, what remains of the line is appended
WrapAppend ==
  /\ pc = "while"
  /\ ~(Len(locals.line) > locals.width)
  /\ locals' = [locals EXCEPT !.lines = Append(locals.lines, locals.line)]
  /\ pc' = "for"
  /\ UNCHANGED <<key, terminal, screen, units, selected_idx, offset, filter_type, max_lines, height,
                 unit, message, call, ret, cmds, printed, typed, shown>>

\* lines 228-233: the for loop is left; lines[:height-3] is written from row 2
\* on, then the footer, and getch waits
WrapDisplay ==
  /\ pc = "for"
  /\ locals.rest = <<>>
  /\ shown' = [i \in 1..Len(slice_until(locals.lines, height - 3)) |->
                 [row |-> (i - 1) + 2, text |-> slice_until(locals.lines, height - 3)[i]]]
  /\ pc' = "message"
  /\ UNCHANGED <<key, terminal, screen, units, selected_idx, offset, filter_type, max_lines, height,
                 unit, message, call, ret, cmds, printed, typed, locals>>

WrapNext == WrapSplit \/ WrapFor \/ WrapWhile \/ WrapAppend \/ WrapDisplay

\* the interpreter goes on to the next statement as long as there is one
WrapSpec == WrapInit /\ [][WrapNext]_vars /\ WF_vars(WrapNext)

(***************************************************************************)
(* Claims about the dashboard.                                             *)
(***************************************************************************)
Waiting == pc \in {"list", "detail", "message", "filter"}

\* C1: with units non-empty and the number of visible rows fixed and at least
\* 1, from any selection and scroll position with
\* 0 <= offset <= selected_idx <= offset + max_lines - 1 and
\* selected_idx <= len(units) - 1, the same holds after every Up or Down.
C1_NavigationInvariant ==
  /\ 0 <= offset
  /\ offset <= selected_idx
  /\ selected_idx <= offset + max_lines - 1
  /\ selected_idx <= Len(units) - 1

\* Down has scrolled the list to its end: the last unit selected, on the
\* last row
C1_Witness ==
  /\ key = "KEY_DOWN"
  /\ Len(units) > max_lines
  /\ selected_idx = Len(units) - 1
  /\ offset = Len(units) - max_lines

\* C2 (the code breaks it): in every state the dashboard reaches, whenever
\* units is non-empty selected_idx lies in [0, len(units) - 1].
C2_SelectedInRange ==
  (Waiting /\ units # <<>>) => (0 <= selected_idx /\ selected_idx <= Len(units) - 1)

\* C3 (the code breaks it): the main loop never ends abnormally; it ends only
\* when q is pressed in the list.
C3_NoFatalPath == pc # "crashed"

\* C4 (the code breaks it): when a refresh has left selected_idx or offset
\* past the end of a shorter, non-empty list, the next single Up or Down puts
\* them back: after it 0 <= offset <= selected_idx <= len(units) - 1.
\* (cmds is non-empty in the list only when the step before was a refresh, the
\* start or a filter change.)
C4_NextMoveReclamps ==
  [][ ( /\ pc = "list" /\ cmds # <<>> /\ units # <<>>
        /\ (selected_idx > Len(units) - 1 \/ offset > Len(units) - 1)
        /\ (KeyUp \/ KeyDown) )
      => ( /\ 0 <= offset'
           /\ offset' <= selected_idx'
           /\ selected_idx' <= Len(units') - 1 ) ]_vars

\* the text a line typed stands for: None when it is blank, otherwise the
\* line without the whitespace around it
FilterOf(bytes) ==
  IF \A i \in 1..Len(bytes) : bytes[i] \in Whitespace THEN None
  ELSE CHOOSE t \in {SubSeq(bytes, i, j) : i \in 1..Len(bytes), j \in 1..Len(bytes)} :
         /\ t # <<>>
         /\ t[1] \notin Whitespace /\ t[Len(t)] \notin Whitespace
         /\ TrimsTo(bytes, t)

\* C13 (the code breaks it): completing the filter input sets filter_type to
\* None when the line typed is empty once trimmed and to the trimmed text
\* otherwise; in both cases selected_idx and offset become 0, units becomes
\* the answer of list_units for the new filter_type, and the dashboard is
\* back in the list.
C13_FilterCompletes ==
  [][ pc = "filter" =>
        /\ pc' = "list"
        /\ filter_type' = FilterOf(typed')
        /\ selected_idx' = 0
        /\ offset' = 0
        /\ cmds' # <<>>
        /\ cmds'[1] = cmd_list_units(filter_type')
        /\ \E o \in TuiListOutcomes : units' = list_units(filter_type', o, TuiEnabled).ret ]_vars

\* the operation a key of the detail view stands for
OpOfKey(k) ==
  CASE k = "s" -> "start_unit"
    [] k = "t" -> "stop_unit"
    [] k = "r" -> "restart_unit"
    [] k = "e" -> "enable_unit"
    [] k = "d" -> "disable_unit"
    [] k = "l" -> "get_journal_logs"
ActionKeys == {"s", "t", "r", "e", "d", "l"}

\* a step of the detail view or of the message view that does what the
\* detail view is to do, but for the text the message view shows
DetailStep ==
  /\ (pc = "detail" /\ key' = "b") => pc' = "list"
  /\ (pc = "detail" /\ key' \in ActionKeys) =>
       /\ pc' = "message"
       /\ unit' = unit
       /\ call'.op = OpOfKey(key')
       /\ call'.unit_name = unit.name
       /\ key' # "l" =>
            \A i \in 1..Len(cmds') : cmds'[i][3] \in {VerbOf(call'.op), <<"l","i","s","t","-","u","n","i","t","-","f","i","l","e","s">>}
       /\ key' = "l" =>
            \A i \in 1..Len(cmds') :
               cmds'[i] \in {cmd_list_unit_files(unit.name), cmd_journalctl(unit.name, 20)}
  /\ (pc = "detail" /\ key' \notin ActionKeys \cup {"b"}) => (pc' = "detail" /\ unit' = unit)
  /\ pc = "message" => (pc' = "detail" /\ unit' = unit)

\* C14 as stated: in the detail view every action key calls its operation (or
\* the log retrieval) on the unit held and leads to the message view, which
\* shows the text the operation returned.
C14_Original ==
  [][ /\ DetailStep
      /\ (pc = "detail" /\ key' \in ActionKeys) => message' = ret'[2] ]_vars

\* C14 amended: in the detail view every action key calls its operation (or
\* the log retrieval) on the unit held and leads to the message view, which
\* shows the text returned, after "Error: " when the log retrieval failed;
\* from the message view any key leads back to the detail view of the same
\* unit; b, and only b, leaves the detail view for the list.
C14_DetailActions ==
  [][ /\ DetailStep
      /\ (pc = "detail" /\ key' \in ActionKeys) =>
           message' = (IF key' = "l" /\ ~ret'[1] THEN <<"E","r","r","o","r",":"," ">> \o ret'[2] ELSE ret'[2]) ]_vars

\* the log retrieval failed, and the message view shows the failure
C14_Witness ==
  /\ pc = "message" /\ key = "l"
  /\ call.op = "get_journal_logs"
  /\ call.unit_name = unit.name
  /\ ret[1] = FALSE
  /\ message = <<"E","r","r","o","r",":"," ">> \o ret[2]

C19_SingleStep ==
  [][ (pc = "list" /\ key' \in {"KEY_UP", "KEY_DOWN"}) =>
        LET dir == IF key' = "KEY_UP" THEN -1 ELSE 1
            inside == offset <= selected_idx' /\ selected_idx' <= offset + max_lines - 1
        IN /\ selected_idx' \in {selected_idx, selected_idx + dir}
           /\ (key' = "KEY_UP" /\ selected_idx = 0) => selected_idx' = selected_idx
           /\ (key' = "KEY_DOWN" /\ selected_idx >= Len(units) - 1) => selected_idx' = selected_idx
           /\ (units # <<>> /\ selected_idx \in 0..(Len(units) - 1)) =>
                selected_idx' \in 0..(Len(units) - 1)
           /\ offset' \in {offset, offset + dir}
           /\ offset' # offset => (selected_idx' # selected_idx /\ ~inside)
           /\ offset' >= 0 ]_vars

\* Up has scrolled the list by one row
C19_Witness ==
  /\ pc = "list" /\ key = "KEY_UP"
  /\ Len(units) > max_lines
  /\ selected_idx = offset
  /\ offset > 0
  /\ offset + max_lines < Len(units)

\* C20 (the code breaks it): Enter in the list leads to the detail view of
\* units[selected_idx] when units is non-empty, and leaves the dashboard in
\* the list, nothing changed, when units is empty.
C20_Select ==
  [][ (pc = "list" /\ key' = "KEY_ENTER") =>
        IF units # <<>>
        THEN /\ pc' = "detail"
             /\ selected_idx < Len(units)
             /\ unit' = units[selected_idx + 1]
        ELSE /\ pc' = "list"
             /\ UNCHANGED <<units, selected_idx, offset, filter_type, unit, message, terminal>> ]_vars

\* C21: r in the list runs list_units again with the filter_type stored and
\* puts its answer in units; the dashboard stays in the list, and
\* selected_idx, offset and filter_type are as they were.
C21_RefreshInPlace ==
  [][ (pc = "list" /\ key' = "r") =>
        /\ pc' = "list"
        /\ selected_idx' = selected_idx
        /\ offset' = offset
        /\ filter_type' = filter_type
        /\ cmds' # <<>>
        /\ cmds'[1] = <<<<"s","y","s","t","e","m","c","t","l">>, <<"-","-","u","s","e","r">>, <<"l","i","s","t","-","u","n","i","t","s">>, <<"-","-","a","l","l">>>>
                        \o (IF filter_type = None THEN <<>> ELSE <<<<"*",".">> \o filter_type>>)
        /\ Len(cmds') = Len(units') + 1
        /\ \E o \in TuiListOutcomes : units' = list_units(filter_type, o, TuiEnabled).ret ]_vars

\* a refresh under a filter, with the second unit selected, answered one unit
C21_Witness ==
  /\ pc = "list" /\ key = "r"
  /\ filter_type = <<"s","e","r","v","i","c","e">>
  /\ selected_idx = 1 /\ offset = 1
  /\ Len(units) = 1
  /\ cmds[1] = <<<<"s","y","s","t","e","m","c","t","l">>, <<"-","-","u","s","e","r">>, <<"l","i","s","t","-","u","n","i","t","s">>, <<"-","-","a","l","l">>, <<"*",".","s","e","r","v","i","c","e">>>>

\* C22: units is replaced at the start of the session, by r in the list and
\* when the filter input is completed, and by nothing else: Up, Down, Enter,
\* the keys of the detail view, b and the key that dismisses a message leave
\* units as it is; and the unit the detail view holds is the element of units
\* it was opened on, unchanged while the detail view and its messages last.
C22_SnapshotReplaced ==
  [][ /\ units' # units => (pc = "new" \/ (pc = "list" /\ key' = "r") \/ pc = "filter")
      /\ (pc = "list" /\ pc' = "detail") => (unit' # NoUnit /\ unit' = units[selected_idx + 1])
      /\ (pc \in {"detail", "message"} /\ pc' \in {"detail", "message"}) => unit' = unit ]_vars

\* start has succeeded on the unit held: the unit, and the list, still show
\* what the list query answered
C22_Witness ==
  /\ pc = "message" /\ key = "s"
  /\ ret[1] = TRUE
  /\ Len(units) = 2
  /\ unit = units[2]

\* the rows of units the list shows
RowsShown == draw_rows(units, offset, selected_idx, height)

\* the number of units from offset on, max_lines of them at most
VisibleCount ==
  LET rest == IF Len(units) > offset THEN Len(units) - offset ELSE 0
  IN IF rest < max_lines THEN rest ELSE max_lines

\* C23: drawing the list shows the rows units[offset : offset + max_lines],
\* in order from row 2 on, with the highlight on the row of index
\* selected_idx and on no other; and a step that only draws (a resize, a key
\* no branch takes, the key that dismisses a message) leaves units,
\* selected_idx, offset and filter_type as they were.
C23_RenderingPure ==
  /\ [](pc = "list" =>
          /\ Len(RowsShown) = VisibleCount
          /\ \A i \in 1..Len(RowsShown) :
               /\ RowsShown[i].unit = units[offset + i]
               /\ RowsShown[i].line_num = i + 1
               /\ RowsShown[i].reverse <=> (offset + i - 1 = selected_idx))
  /\ [][ key' \in {"KEY_RESIZE", "other", "any"} =>
           UNCHANGED <<units, selected_idx, offset, filter_type>> ]_vars

\* the list scrolled by one row, the second row shown highlighted
C23_Witness ==
  /\ pc = "list"
  /\ offset = 1 /\ selected_idx = 2
  /\ Len(units) = 4
  /\ Len(RowsShown) = 2
  /\ ~RowsShown[1].reverse /\ RowsShown[2].reverse
  /\ RowsShown[2].unit.name = <<"u","3",".","s","e","r","v","i","c","e">>

(***************************************************************************)
(* Claims about show_message                                               *)
(***************************************************************************)
RECURSIVE Concat(_)
Concat(ps) == IF ps = <<>> THEN <<>> ELSE Head(ps) \o Concat(Tail(ps))

\* out is made of pieces of ins[1], then pieces of ins[2], and so on, each
\* input line giving one piece at least and being the concatenation of its pieces
RECURSIVE PiecesOf(_, _)
PiecesOf(ins, out) ==
  IF ins = <<>> THEN out = <<>>
  ELSE \E n \in 1..Len(out) :
         /\ Concat(SubSeq(out, 1, n)) = Head(ins)
         /\ PiecesOf(Tail(ins), SubSeq(out, n + 1, Len(out)))

\* the call has come to its getch: both loops are left, the rows are written
WrapDone == pc = "message" /\ locals # NoLocals

\* C25, the loops: the wrapping loop terminates, and show_message comes to
\* wait for a key.
C25_Terminates == <>WrapDone

\* C25, the width: every display line produced has length <= width.
C25_PiecesFit ==
  locals # NoLocals => \A k \in 1..Len(locals.lines) : Len(locals.lines[k]) <= locals.width

\* C25, the text: concatenating, in order, the pieces produced from one input
\* line gives back that input line.
C25_PiecesJoin == WrapDone => PiecesOf(call.lines, locals.lines)

\* C25, the rows: at most height-3 display lines are written, on rows
\* 2..height-2, never on the footer row height-1.
C25_RowsInBody ==
  WrapDone => /\ Len(shown) <= height - 3
              /\ \A k \in 1..Len(shown) : shown[k].row \in 2..(height - 2)

C25_WrappingOfThreeRows ==
  /\ C25_Terminates
  /\ [](C25_PiecesFit /\ C25_PiecesJoin /\ (height >= 3 => C25_RowsInBody))

\* a line longer than the terminal is wide is cut in three pieces, and the
\* terminal has not the rows to show them all
C25_Witness ==
  /\ WrapDone
  /\ height >= 3
  /\ \E k \in 1..Len(call.lines) : Len(call.lines[k]) > 2 * locals.width
  /\ Len(shown) = height - 3
  /\ Len(shown) > 0
  /\ Len(locals.lines) > Len(shown)

\* a terminal of two rows: rows are written below the screen
C25_BelowScreen ==
  /\ WrapDone
  /\ height = 2
  /\ \E k \in 1..Len(shown) : shown[k].row > height - 1

==============================================================================
